---- MODULE Spec2Model ----
(***************************************************************************)
(* Model of the ako middleware framework: the dispatch chain (ctx.ts,      *)
(* chain/dispatch) and the router's Route/Router configuration (router.ts).*)
(*                                                                         *)
(* A chain run is modelled at the granularity of JavaScript's              *)
(* run-to-completion semantics: `running` is the synchronous call stack,   *)
(* a frame is one invocation of dispatch(idx) together with the middleware *)
(* it calls, and a frame's promise is its `st` field.  What a middleware   *)
(* does (call next and await it, call next and drop the promise, await     *)
(* something else, throw, return) is chosen step by step.                  *)
(***************************************************************************)
EXTENDS Integers, Sequences, FiniteSets, TLC

VARIABLES
    middlewares,  \* the list handed to chain(): a sequence of middleware names
    runs,         \* runs[r]: one call of chain(ctx, middlewares)
    running,      \* the synchronous call stack: sequence of <<run, frame>>
    rstack,       \* Router.#stack: bare middlewares and Routes, in order
    rparams,      \* Router.#params: parameter name -> remembered interceptor
    nreg,         \* how many param() registrations were made so far
    last,         \* the latest Router/Route call: its arguments and its outcome
    srv,          \* the serving loop of App.startListen and what it did per request
    pure          \* the latest call of a function of a Route or of a handler

vars == <<middlewares, runs, running, rstack, rparams, nreg, last, srv, pure>>

chainVars  == <<middlewares, runs, running>>
routerVars == <<rstack, rparams, nreg, last>>
appVars    == <<srv, pure>>

----------------------------------------------------------------------------
(* Bounds *)

MaxLen  == 3      \* longest middleware list handed to chain
MaxOps  == 4      \* most steps (calls, awaits, throws) the middlewares of one run take
MaxConcLen == 1   \* longest middleware list in the two-run specification
MaxConcOps == 2   \* most steps the middlewares of one run take in the two-run specification
MaxParamCalls == 3  \* most param() registrations made on a route
MaxEntries == 2     \* registrations are made while the Router's stack is shorter than this
MaxRouterParams == 2  \* most param() registrations made on a Router

----------------------------------------------------------------------------
(* Errors *)

NoErr      == [kind |-> "none",   by |-> -1]
DoubleErr  == [kind |-> "double", by |-> -1]   \* Error('next() called multiple times')
TypeErr    == [kind |-> "type",   by |-> -1]   \* calling undefined
AppErr(i)  == [kind |-> "app",    by |-> i]    \* whatever middleware i throws

----------------------------------------------------------------------------
(* Calls on the Router and on a Route, and what they give back *)

\* what a call returned or threw; v is a sequence of strings
Out(t, v) == [t |-> t, v |-> v]

This      == Out("this", <<>>)        \* return this
Null      == Out("null", <<>>)        \* return null
Undefined == Out("undefined", <<>>)   \* a function body without a return
Thrown(e) == Out("throw", <<e>>)      \* throw new <e>(...)
Str(segs) == Out("string", segs)      \* a path string, as its segments

\* one call: the method called, its outcome, and its arguments (the path or
\* name, the destination of a redirect, the method list handed to addRoute,
\* the middleware list, the parameter name, the names a params object
\* binds); arguments not given stay empty
Call(op, out) ==
    [op |-> op, out |-> out, path |-> <<>>, dst |-> <<>>, methods |-> <<>>,
     mws |-> <<>>, param |-> "", params |-> <<>>, status |-> 0]

NoCall == Call("none", Undefined)

----------------------------------------------------------------------------
(* chain / dispatch *)

\* let id = -1
InitialId == -1

\* return dispatch(0)
FirstIdx_one == 0 + 1
FirstIdx == 0

\* if (idx <= id) throw ...
DoubleCall_lt(idx, id) == idx < id
DoubleCall(idx, id) == idx <= id

\* `id` is a local of one chain() call: each run reads its own cursor
CursorOf_shared(rs, r) ==
    CHOOSE m \in {rs[q].id : q \in DOMAIN rs} :
        \A q \in DOMAIN rs : rs[q].id <= m
CursorOf(rs, r) == rs[r].id

\* id = idx
Advance_stale(id, idx) == id
Advance(id, idx) == idx

\* const next = () => dispatch(idx + 1)
NextIdx(idx) == idx + 1

\* const fn = idx == middlewares.length ? next : middlewares[idx]
Fn(idx, mws) ==
    IF idx = Len(mws) THEN "next"
    ELSE IF idx >= 0 /\ idx < Len(mws) THEN "mw"
    ELSE "undefined"

\* return fn?.(ctx, next): an undefined fn is not called, dispatch returns
OptCall_strict(fn) == IF fn = "undefined" THEN "err" ELSE "run"
OptCall(fn) == IF fn = "undefined" THEN "ok" ELSE "run"

\* The frame of one dispatch(idx) call made by frame `by` (0: by chain itself)
\* when the cursor read is `cur`.  `seen` records the run's own cursor at the
\* call and `seenMax` the highest cursor of any run at the call.
NewFrame(idx, by, cur, seen, seenMax, mws) ==
    IF DoubleCall(idx, cur)
    THEN [idx |-> idx, fn |-> "none", ran |-> FALSE, st |-> "err",
          err |-> DoubleErr, ops |-> <<>>, wait |-> 0, catch |-> FALSE,
          by |-> by, seen |-> seen, seenMax |-> seenMax]
    ELSE LET fn == Fn(idx, mws)
             st == OptCall(fn)
         IN [idx |-> idx, fn |-> fn, ran |-> TRUE, st |-> st,
             err |-> IF st = "err" THEN TypeErr ELSE NoErr,
             ops |-> <<>>, wait |-> 0, catch |-> FALSE,
             by |-> by, seen |-> seen, seenMax |-> seenMax]

MaxCursor(rs) ==
    CHOOSE m \in {rs[q].id : q \in DOMAIN rs} : \A q \in DOMAIN rs : rs[q].id <= m

\* dispatch(idx) in run r: the check, id = idx, and the call of fn, whose
\* first effect (for a middleware) is its mark on the context
Dispatch(rs, r, idx, by) ==
    LET run == rs[r]
        fr  == NewFrame(idx, by, CursorOf(rs, r), run.id, MaxCursor(rs), middlewares)
    IN [run EXCEPT
          !.frames = Append(@, fr),
          !.id     = IF fr.ran THEN Advance(@, idx) ELSE @,
          !.ctx    = IF fr.fn = "mw" THEN Append(@, middlewares[idx + 1]) ELSE @]

\* the promise returned by dispatch: settled, and how
Settled_early(fr) == TRUE
Settled(fr)  == fr.st \in {"ok", "err"}
Rejected_never(fr) == FALSE
Rejected(fr) == fr.st = "err"

Pop(s) == SubSeq(s, 1, Len(s) - 1)
Top    == running[Len(running)]

\* ctx: the marks middlewares left on the context when they started;
\* post: the middlewares whose code after an awaited call has run, in order
NewRun == [started |-> FALSE, id |-> InitialId, frames |-> <<>>, ctx |-> <<>>,
           post |-> <<>>, steps |-> 0]

MwNames(n) == [i \in 1..n |-> i - 1]

CallModes == {"Await", "AwaitCatch", "Fire"}

----------------------------------------------------------------------------
(* Actions of a chain run *)

\* chain(ctx, middlewares) for run r: dispatch(0)
Chain(r) ==
    /\ running = <<>>
    /\ ~runs[r].started
    /\ LET run2 == Dispatch(runs, r, FirstIdx, 0)
           g    == Len(run2.frames)
       IN /\ runs' = [runs EXCEPT ![r] = [run2 EXCEPT !.started = TRUE]]
          /\ running' = IF run2.frames[g].st = "run" THEN <<<<r, g>>>> ELSE <<>>

\* chain(ctx, middlewares): called from the event loop for run r
StartChain(r) ==
    /\ Chain(r)
    /\ UNCHANGED <<middlewares, routerVars, appVars>>

\* The running frame calls its continuation: `await next()` ("Await"),
\* `try { await next() } catch {}` ("AwaitCatch") or `next()` with the
\* promise dropped ("Fire").  The terminal fn (= next) does `return next()`.
CallNext(mode, maxOps) ==
    /\ running # <<>>
    /\ LET r  == Top[1]
           f  == Top[2]
           fr == runs[r].frames[f]
       IN /\ \/ fr.fn = "mw" /\ runs[r].steps < maxOps
             \/ fr.fn = "next" /\ fr.ops = <<>> /\ mode = "Await"
          /\ LET run2  == Dispatch(runs, r, NextIdx(fr.idx), f)
                 g     == Len(run2.frames)
                 child == run2.frames[g]
                 aw    == mode # "Fire"
                 fr2   == [fr EXCEPT !.ops   = Append(@, mode),
                                     !.st    = IF aw THEN "await" ELSE "run",
                                     !.wait  = IF aw THEN g ELSE 0,
                                     !.catch = (mode = "AwaitCatch")]
                 base  == IF aw THEN Pop(running) ELSE running
             IN /\ runs' = [runs EXCEPT ![r] =
                              [run2 EXCEPT !.frames[f] = fr2,
                                           !.steps = IF fr.fn = "mw" THEN @ + 1 ELSE @]]
                /\ running' = IF child.st = "run"
                              THEN Append(base, <<r, g>>) ELSE base
    /\ UNCHANGED <<middlewares, routerVars, appVars>>

\* The running middleware awaits something that is not its continuation
Yield(maxOps) ==
    /\ running # <<>>
    /\ LET r  == Top[1]
           f  == Top[2]
           fr == runs[r].frames[f]
       IN /\ fr.fn = "mw" /\ runs[r].steps < maxOps
          /\ runs' = [runs EXCEPT ![r].frames[f] =
                        [fr EXCEPT !.ops = Append(@, "Yield"), !.st = "yield"],
                                   ![r].steps = @ + 1]
    /\ running' = Pop(running)
    /\ UNCHANGED <<middlewares, routerVars, appVars>>

\* The running middleware throws
Throw(maxOps) ==
    /\ running # <<>>
    /\ LET r  == Top[1]
           f  == Top[2]
           fr == runs[r].frames[f]
       IN /\ fr.fn = "mw" /\ runs[r].steps < maxOps
          /\ runs' = [runs EXCEPT ![r].frames[f] =
                        [fr EXCEPT !.ops = Append(@, "Throw"), !.st = "err",
                                   !.err = AppErr(fr.idx)],
                                   ![r].steps = @ + 1]
    /\ running' = Pop(running)
    /\ UNCHANGED <<middlewares, routerVars, appVars>>

\* (variant: a middleware that returns without having called its continuation
\* falls through to the next one)
Return_fallthrough ==
    /\ running # <<>>
    /\ LET r  == Top[1]
           f  == Top[2]
           fr == runs[r].frames[f]
       IN /\ \/ fr.fn = "mw"
             \/ fr.fn = "next" /\ fr.ops # <<>>
          /\ LET falls == fr.fn = "mw" /\ \A k \in DOMAIN fr.ops : fr.ops[k] = "Yield"
                 run2  == IF falls THEN Dispatch(runs, r, NextIdx(fr.idx), f)
                          ELSE runs[r]
                 g     == Len(run2.frames)
                 rest  == Pop(running)
             IN /\ runs' = [runs EXCEPT ![r] = [run2 EXCEPT !.frames[f] =
                              [fr EXCEPT !.ops = Append(@, "Return"), !.st = "ok"]]]
                /\ running' = IF falls /\ run2.frames[g].st = "run"
                              THEN Append(rest, <<r, g>>) ELSE rest
    /\ UNCHANGED <<middlewares, routerVars, appVars>>

\* The running function returns: dispatch's promise is fulfilled
Return ==
    /\ running # <<>>
    /\ LET r  == Top[1]
           f  == Top[2]
           fr == runs[r].frames[f]
       IN /\ \/ fr.fn = "mw"
             \/ fr.fn = "next" /\ fr.ops # <<>>
          /\ runs' = [runs EXCEPT ![r].frames[f] =
                        [fr EXCEPT !.ops = Append(@, "Return"), !.st = "ok"]]
    /\ running' = Pop(running)
    /\ UNCHANGED <<middlewares, routerVars, appVars>>

\* The event loop resumes a middleware whose other await completed
Resume(r, f) ==
    /\ running = <<>>
    /\ runs[r].frames[f].st = "yield"
    /\ runs' = [runs EXCEPT ![r].frames[f].st = "run"]
    /\ running' = <<<<r, f>>>>
    /\ UNCHANGED <<middlewares, routerVars, appVars>>

\* The event loop resumes a function awaiting a settled continuation promise:
\* a rejection is rethrown at the await and, unless caught, rejects the
\* awaiting function's own promise with the same error
ResumeAwait(r, f) ==
    /\ running = <<>>
    /\ LET fr    == runs[r].frames[f]
       IN /\ fr.st = "await"
          /\ Settled(runs[r].frames[fr.wait])
          /\ LET child == runs[r].frames[fr.wait]
             IN IF Rejected(child) /\ ~fr.catch
                THEN /\ runs' = [runs EXCEPT ![r].frames[f] =
                                   [fr EXCEPT !.st = "err", !.err = child.err]]
                     /\ running' = <<>>
                ELSE /\ runs' = [runs EXCEPT ![r].frames[f] =
                                   [fr EXCEPT !.st = "run"],
                                 ![r].post = IF fr.fn = "mw"
                                             THEN Append(@, fr.idx) ELSE @]
                     /\ running' = <<<<r, f>>>>
    /\ UNCHANGED <<middlewares, routerVars, appVars>>

ResumeAny ==
    \/ \E r \in DOMAIN runs : \E f \in DOMAIN runs[r].frames : Resume(r, f)
    \/ \E r \in DOMAIN runs : \E f \in DOMAIN runs[r].frames : ResumeAwait(r, f)

ChainNext ==
    \/ \E r \in DOMAIN runs : StartChain(r)
    \/ \E mode \in CallModes : CallNext(mode, MaxOps)
    \/ Yield(MaxOps)
    \/ Throw(MaxOps)
    \/ Return
    \/ ResumeAny

\* The two-run specification leaves out throwing and catching middlewares
ConcNext ==
    \/ \E r \in DOMAIN runs : StartChain(r)
    \/ \E mode \in {"Await", "Fire"} : CallNext(mode, MaxConcOps)
    \/ Yield(MaxConcOps)
    \/ Return
    \/ ResumeAny

InitRouterIdle ==
    /\ rstack = <<>>
    /\ rparams = {}
    /\ nreg = 0
    /\ last = NoCall

InitChainIdle ==
    /\ middlewares = <<>>
    /\ runs = <<>>
    /\ running = <<>>

\* no server is listening, no function of a Route has been called
NoServer == [loop |-> "none", cur |-> 0, made |-> 0, log |-> <<>>]
NoPure   == [op |-> "none"]

InitAppIdle ==
    /\ srv = NoServer
    /\ pure = NoPure

\* One request: one chain run over any list of up to MaxLen middlewares
Init ==
    /\ \E n \in 0..MaxLen : middlewares = MwNames(n)
    /\ runs = <<NewRun>>
    /\ running = <<>>
    /\ InitRouterIdle
    /\ InitAppIdle

Next == ChainNext

Spec == Init /\ [][Next]_vars

\* Two requests over the same list, interleaved at every suspension point
InitConc ==
    /\ \E n \in 0..MaxConcLen : middlewares = MwNames(n)
    /\ runs = <<NewRun, NewRun>>
    /\ running = <<>>
    /\ InitRouterIdle
    /\ InitAppIdle

SpecConc == InitConc /\ [][ConcNext]_vars

----------------------------------------------------------------------------
(* Route *)

Lit(v) == [t |-> "lit",   v |-> v]
Par(v) == [t |-> "param", v |-> v]

\* the path patterns routes are declared with: /a, /a/:x, /a/:x/:y, /b/:y/:x
Paths ==
    { <<Lit("a")>>,
      <<Lit("a"), Par("x")>>,
      <<Lit("a"), Par("x"), Par("y")>>,
      <<Lit("b"), Par("y"), Par("x")>> }

\* the parameter names param() is called with ("q" is declared by no path)
ParamNames == {"x", "y", "q"}

\* the handler lists routes are declared with
HandlerLists == { <<>>, <<"h1">>, <<"h1", "h2">> }

\* the method lists of Router.get/put/post/delete/all
MethodLists ==
    { <<"GET">>, <<"PUT">>, <<"POST">>, <<"DELETE">>,
      <<"GET", "PUT", "POST", "DELETE">> }

\* a regular handler has no `param` property; an interceptor carries the name
Handler(h)        == [param |-> "", h |-> h]
Interceptor(p, f) == [param |-> p,  h |-> f]

\* Array.prototype.indexOf, zero-based, -1 when absent
IndexOf(seq, x) ==
    IF \E i \in 1..Len(seq) : seq[i] = x
    THEN (CHOOSE i \in 1..Len(seq) :
             seq[i] = x /\ \A j \in 1..(i - 1) : seq[j] # x) - 1
    ELSE -1

\* this.keys = keys.map(k => k.name): the parameter names in declaration order
KeysOf(path) ==
    LET ps == SelectSeq(path, LAMBDA tok : tok.t = "param")
    IN [i \in 1..Len(ps) |-> ps[i].v]

\* upper(str): str.toUpperCase(), on the method names in use
Upper(m) ==
    CASE m = "get"    -> "GET"
      [] m = "head"   -> "HEAD"
      [] m = "put"    -> "PUT"
      [] m = "post"   -> "POST"
      [] m = "delete" -> "DELETE"
      [] OTHER        -> m

\* methods.includes('GET'): asked of the list as given, not of the upper-cased one
IncludesGet(methods) == \E i \in 1..Len(methods) : methods[i] = "GET"

\* the methods.reduce of the constructor: the upper-cased method is kept
\* when it is not HEAD and the declared list does not include GET
RouteMethods(methods) ==
    LET ups  == [i \in 1..Len(methods) |-> Upper(methods[i])]
    IN SelectSeq(ups, LAMBDA m : m # "HEAD" /\ ~IncludesGet(methods))

\* typeof fn == 'function'
Callable_any(h) == TRUE
Callable(h) == h # "notfn"

\* the constructor's check of the middleware list; opts.name is never given
\* (Router.addRoute passes no opts), so the check is always made
RouteThrows(mws) == \E i \in 1..Len(mws) : ~Callable(mws[i])

\* this.name of a Route constructed without opts.name: undefined
NoName == <<>>

\* new Route(path, methods, middlewares), when the constructor does not throw
NewRoute(path, methods, mws) ==
    [kind    |-> "route",
     name    |-> NoName,
     path    |-> path,
     methods |-> RouteMethods(methods),
     keys    |-> KeysOf(path),
     stack   |-> [i \in 1..Len(mws) |-> Handler(mws[i])]]

\* the test of Route.param's scan: stop at a regular handler, or at an
\* interceptor of a parameter declared after the one being added
StopsAt_before(keys, idx, m) == m.param = "" \/ IndexOf(keys, m.param) < idx
StopsAt(keys, idx, m) == m.param = "" \/ IndexOf(keys, m.param) > idx

\* if (idx != -1)
Declared_always(idx) == TRUE
Declared(idx) == idx # -1

\* stack.splice(i, 0, middleware), i zero-based
Splice_replace(stack, i, m) ==
    SubSeq(stack, 1, i) \o <<m>> \o SubSeq(stack, i + 2, Len(stack))
Splice(stack, i, m) ==
    SubSeq(stack, 1, i) \o <<m>> \o SubSeq(stack, i + 1, Len(stack))

\* Route.param(param, fn): the route afterwards
RouteParam(route, param, fn) ==
    LET idx  == IndexOf(route.keys, param)
        hits == {i \in 0..(Len(route.stack) - 1) :
                    StopsAt(route.keys, idx, route.stack[i + 1])}
    IN IF Declared(idx) /\ hits # {}
       THEN LET first == CHOOSE i \in hits : \A j \in hits : i <= j
            IN [route EXCEPT !.stack = Splice(@, first, Interceptor(param, fn))]
       ELSE route

IsRoute(e) == e.kind = "route"

\* route.param(param, fn) called on the Route at position i of the stack;
\* the function registered is named by the ordinal of the registration
CallRouteParam(i, param) ==
    /\ nreg < MaxParamCalls
    /\ i \in DOMAIN rstack
    /\ IsRoute(rstack[i])
    /\ rstack' = [rstack EXCEPT ![i] = RouteParam(@, param, nreg + 1)]
    /\ nreg' = nreg + 1
    /\ last' = [Call("Route.param", This) EXCEPT !.path = rstack[i].path,
                                                  !.param = param]
    /\ UNCHANGED <<rparams, chainVars, appVars>>

\* A Route as constructed, then any sequence of param() calls on it
InitRoute ==
    /\ \E path \in Paths, methods \in MethodLists, mws \in HandlerLists :
          rstack = <<NewRoute(path, methods, mws)>>
    /\ rparams = {}
    /\ nreg = 0
    /\ last = NoCall
    /\ InitChainIdle
    /\ InitAppIdle

NextRoute == \E param \in ParamNames : CallRouteParam(1, param)

SpecRoute == InitRoute /\ [][NextRoute]_vars

----------------------------------------------------------------------------
(* Route: match, captures, params, url *)

MaxCaptures == 2   \* longest list of captures params() is called with

\* Route.match(path): the regexp of the pattern tested on the path; a
\* parameter matches any one segment, a literal matches itself
RouteMatch(route, path) ==
    /\ Len(path) = Len(route.path)
    /\ \A i \in DOMAIN path :
          route.path[i].t = "lit" => route.path[i].v = path[i]

\* path.match(this.regexp): the whole match followed by one group per
\* parameter, or null (here the empty sequence) when the path does not match
RegexpMatch(route, path) ==
    IF RouteMatch(route, path)
    THEN <<path>> \o [i \in 1..Len(route.keys) |->
                        <<path[CHOOSE j \in DOMAIN route.path :
                                   route.path[j] = Par(route.keys[i])]>>]
    ELSE <<>>

\* .slice(1)
Slice1_none(m) == m
Slice1(m) == IF m = <<>> THEN <<>> ELSE Tail(m)

\* Route.captures(path); opts.ignoreCaptures is never set (no opts are given)
RouteCaptures(route, path) ==
    LET groups == Slice1(RegexpMatch(route, path))
    IN [i \in DOMAIN groups |-> groups[i][1]]

\* decodeURIComponent of shared.ts: the decoded string, or null when the
\* global function throws on a malformed escape sequence
Decode(s) ==
    CASE s = "a%20b" -> [null |-> FALSE, v |-> "a b"]
      [] s = "%41"   -> [null |-> FALSE, v |-> "A"]
      [] s = "%zz"   -> [null |-> TRUE,  v |-> ""]
      [] OTHER       -> [null |-> FALSE, v |-> s]

\* decodeURIComponent(capture) ?? capture
DecodedOr_decoded(capture) == Decode(capture).v
DecodedOr(capture) ==
    IF Decode(capture).null THEN capture ELSE Decode(capture).v

\* a parameter map without entries
EmptyMap == [k \in {} |-> ""]

\* params[key] = value
Assign_fresh(params, key, value) == [k \in {key} |-> value]
Assign(params, key, value) ==
    [k \in DOMAIN params \cup {key} |-> IF k = key THEN value ELSE params[k]]

\* the loop of Route.params from index i (one-based) up to len
RECURSIVE ParamsLoop(_, _, _, _, _)
ParamsLoop(keys, captures, params, i, len) ==
    IF i > len THEN params
    ELSE ParamsLoop(keys, captures,
                    Assign(params, keys[i], DecodedOr(captures[i])), i + 1, len)

Min(a, b) == IF a <= b THEN a ELSE b

\* Route.params(captures, params): the map returned
RouteParams(route, captures, params) ==
    ParamsLoop(route.keys, captures, params, 1,
               Min(Len(route.keys), Len(captures)))

\* the params argument of Route.url: an array, an object, or not given
ArrayParams(seq)  == [kind |-> "array",  v |-> seq]
ObjectParams(map) == [kind |-> "object", v |-> map]
NoParams          == [kind |-> "undefined", v |-> <<>>]

\* parse(url).map(t => typeof t == 'string' ? t : t.name): a literal chunk
\* gives its text, a parameter its name (no modelled path holds two
\* adjacent literal segments, so every literal token is one chunk)
UrlNames(route) == [i \in DOMAIN route.path |-> route.path[i].v]

\* the object handed to toPath: for an array the i-th value is stored under
\* the i-th name (literal chunks included), an object is handed over as it
\* is, undefined stays undefined (names.some(n => n) holds for every path)
UrlReplace(route, params) ==
    IF params.kind = "array"
    THEN LET names == UrlNames(route)
             idxOf(n) == CHOOSE i \in DOMAIN names :
                            names[i] = n /\ \A j \in DOMAIN names : names[j] = n => j <= i
             given == {names[i] : i \in DOMAIN names \cap DOMAIN params.v}
         IN ObjectParams([n \in given |-> params.v[idxOf(n)]])
    ELSE params

\* the value has a character the parameter pattern [^\/#\?]+? refuses
Refused(v) == v = "a/b"

\* toPath(replace): literals are copied, a parameter is replaced by its
\* value as it is (compile's default encode is the identity); a value that
\* is missing or does not match the parameter's pattern throws a TypeError
ToPath(route, replace) ==
    LET path   == route.path
        has(n) == replace.kind = "object" /\ n \in DOMAIN replace.v
        bad(i) == path[i].t = "param" /\
                    (~has(path[i].v) \/ Refused(replace.v[path[i].v]))
    IN IF \E i \in DOMAIN path : bad(i)
       THEN Thrown("TypeError")
       ELSE Str([i \in DOMAIN path |->
                    IF path[i].t = "param" THEN replace.v[path[i].v] ELSE path[i].v])

\* Route.url(params, opts): query is "none", "string" or "object"; with a
\* query the method calls parseUrl, a name that is not defined anywhere
RouteUrlOf(route, params, query) ==
    LET replaced == ToPath(route, UrlReplace(route, params))
    IN IF replaced.t = "throw" THEN replaced
       ELSE IF query # "none" THEN Thrown("ReferenceError")
       ELSE replaced

----------------------------------------------------------------------------
(* Router *)

\* a string that is not a path: a route name
Nm(v) == [t |-> "name", v |-> v]

\* the paths routes are registered with through the Router
RouterPaths == { <<Lit("a")>>, <<Lit("a"), Par("x")>> }

\* the strings url() and redirect() are called with: paths, and one name
RouteNames == RouterPaths \cup { <<Nm("home")>> }

\* the middleware lists of route registrations; "notfn" is not a function
RouterHandlerLists == { <<"h1">>, <<"h1", "notfn">> }

\* the middleware lists of use()
UseLists == { <<"m1">>, <<"m1", "m2">> }

\* the parameter names Router.param is called with
RouterParamNames == {"x", "q"}

\* the params objects url() is called with, as the names they bind
UrlParams == { <<>>, <<"x">> }

\* a bare middleware in the Router's stack
Bare(h) == [kind |-> "mw", h |-> h]

\* this.#stack.push(...)
Push_front(stack, es) == es \o stack
Push(stack, es) == stack \o es

\* Router.use(...middlewares)
RouterUse(mws) ==
    /\ Len(rstack) < MaxEntries
    /\ rstack' = Push(rstack, [i \in 1..Len(mws) |-> Bare(mws[i])])
    /\ last' = [Call("use", This) EXCEPT !.mws = mws]
    /\ UNCHANGED <<rparams, nreg, chainVars, appVars>>

\* Router.addRoute(name, methods, middlewares), reached through the call
\* `call`: the Route is constructed first, and pushed when the constructor
\* returned
AddRoute(call, path, methods, mws) ==
    /\ Len(rstack) < MaxEntries
    /\ IF RouteThrows(mws)
       THEN /\ rstack' = rstack
            /\ last' = [call EXCEPT !.methods = methods, !.out = Thrown("Error")]
       ELSE /\ rstack' = Push(rstack, <<NewRoute(path, methods, mws)>>)
            /\ last' = [call EXCEPT !.methods = methods, !.out = This]
    /\ UNCHANGED <<rparams, nreg, chainVars, appVars>>

\* the call of a registration method with a path and a middleware list
Registration(op, path, mws) ==
    [Call(op, This) EXCEPT !.path = path, !.mws = mws]

\* the method list of Router.all
AllMethods == <<"GET", "PUT", "POST", "DELETE">>

RouterAll(path, mws)    == AddRoute(Registration("all", path, mws), path, AllMethods, mws)
RouterGet(path, mws)    == AddRoute(Registration("get", path, mws), path, <<"GET">>, mws)
RouterPut(path, mws)    == AddRoute(Registration("put", path, mws), path, <<"PUT">>, mws)
RouterPost(path, mws)   == AddRoute(Registration("post", path, mws), path, <<"POST">>, mws)
RouterDelete(path, mws) == AddRoute(Registration("delete", path, mws), path, <<"DELETE">>, mws)

\* Router.route(name): the position of the first Route whose name is `name`,
\* 0 when find() returns undefined
RouterRoute(stack, name) ==
    LET found == {i \in DOMAIN stack : IsRoute(stack[i]) /\ stack[i].name = name}
    IN IF found = {} THEN 0 ELSE CHOOSE i \in found : \A j \in found : i <= j

\* the value a params object binds a name to
ValueOf(n) == IF n = "x" THEN "1" ELSE "2"

\* Route.url(params) with a params object, given as the names it binds, and
\* no query
RouteUrl(route, params) ==
    RouteUrlOf(route,
               ObjectParams([n \in {params[k] : k \in DOMAIN params} |-> ValueOf(n)]),
               "none")

\* Router.url(name, params): `opts` is not defined in the method, so the
\* call of route.url throws a ReferenceError when a route was found
RouterUrl(stack, name, params) ==
    IF RouterRoute(stack, name) # 0 THEN Thrown("ReferenceError") ELSE Null

\* src[0] == '/'
StartsWithSlash_any(s) == TRUE
StartsWithSlash(s) == s[1].t # "name"

\* src[0] == '/' ? src : this.url(src)
Resolve(stack, s) ==
    IF StartsWithSlash(s) THEN Out("given", <<>>) ELSE RouterUrl(stack, s, <<>>)

\* status: number = 301
DefaultStatus == 301

\* Router.redirect(src, dst, status): both ends are resolved, a null end
\* throws a TypeError, otherwise the redirecting handler, which closes over
\* dstUrl and status, is registered as all() does
RouterRedirectWith(src, dst, status) ==
    LET su == Resolve(rstack, src)
        du == Resolve(rstack, dst)
        me == [Registration("redirect", src, <<"redirect">>)
                  EXCEPT !.dst = dst, !.status = status]
    IN /\ Len(rstack) < MaxEntries
       /\ IF su.t = "throw" \/ (su.t # "throw" /\ du.t = "throw")
          THEN /\ last' = [me EXCEPT !.out = IF su.t = "throw" THEN su ELSE du]
               /\ UNCHANGED <<rstack, rparams, nreg, chainVars, appVars>>
          ELSE IF su = Null \/ du = Null
          THEN /\ last' = [me EXCEPT !.out = Thrown("TypeError")]
               /\ UNCHANGED <<rstack, rparams, nreg, chainVars, appVars>>
          ELSE LET srcUrl == IF su.t = "given" THEN src
                             ELSE [i \in DOMAIN su.v |-> Lit(su.v[i])]
               IN AddRoute(me, srcUrl, AllMethods, <<"redirect">>)

\* Router.redirect(src, dst)
RouterRedirect(src, dst) == RouterRedirectWith(src, dst, DefaultStatus)

\* Router.param(param, middleware): remembered, then handed to every Route
\* that is in the stack now
RouterParam(param) ==
    /\ nreg < MaxRouterParams
    /\ rparams' = {e \in rparams : e.param # param}
                     \cup {[param |-> param, fn |-> nreg + 1]}
    /\ rstack' = [i \in DOMAIN rstack |->
                     IF IsRoute(rstack[i])
                     THEN RouteParam(rstack[i], param, nreg + 1)
                     ELSE rstack[i]]
    /\ nreg' = nreg + 1
    /\ last' = [Call("param", This) EXCEPT !.param = param]
    /\ UNCHANGED <<chainVars, appVars>>

\* Router.url(name, params) called by the application
CallUrl(name, params) ==
    /\ last' = [Call("url", RouterUrl(rstack, name, params))
                   EXCEPT !.path = name, !.params = params]
    /\ UNCHANGED <<rstack, rparams, nreg, chainVars, appVars>>

\* Router.routes(): the body holds a comment only
RouterRoutes(stack) == Undefined

\* Router.routes() called by the application
CallRoutes ==
    /\ last' = Call("routes", RouterRoutes(rstack))
    /\ UNCHANGED <<rstack, rparams, nreg, chainVars, appVars>>

\* the request methods and request paths (as segments) asked about
ReqMethods == {"GET", "HEAD", "PUT"}
ReqPaths   == { <<"a">>, <<"a", "1">>, <<"b">> }

\* the handlers a value used as a middleware runs for a request: chain calls
\* fn?.(ctx, next), which calls nothing when fn is undefined
RunBy(fn, method, path) == IF fn = Undefined THEN <<>> ELSE fn.v

\* new Router(), then any sequence of calls on it
InitRouter == InitRouterIdle /\ InitChainIdle /\ InitAppIdle

NextRouter ==
    \/ \E mws \in UseLists : RouterUse(mws)
    \/ \E path \in RouterPaths, mws \in RouterHandlerLists : RouterAll(path, mws)
    \/ \E path \in RouterPaths, mws \in RouterHandlerLists : RouterGet(path, mws)
    \/ \E path \in RouterPaths, mws \in RouterHandlerLists : RouterPut(path, mws)
    \/ \E path \in RouterPaths, mws \in RouterHandlerLists : RouterPost(path, mws)
    \/ \E path \in RouterPaths, mws \in RouterHandlerLists : RouterDelete(path, mws)
    \/ \E src \in RouteNames, dst \in RouteNames : RouterRedirect(src, dst)
    \/ \E param \in RouterParamNames : RouterParam(param)
    \/ \E name \in RouteNames, params \in UrlParams : CallUrl(name, params)
    \/ CallRoutes

SpecRouter == InitRouter /\ [][NextRouter]_vars

----------------------------------------------------------------------------
(* Vocabulary of the properties *)

Finished(fr) == fr.st \in {"ok", "err"}

\* the continuation calls a function has made so far, in order
Calls(fr) == SelectSeq(fr.ops, LAMBDA o : o \in {"Await", "AwaitCatch", "Fire"})

Has(fr, op) == \E k \in DOMAIN fr.ops : fr.ops[k] = op

Started(r) == runs[r].started
Root(r)    == runs[r].frames[1]

\* the invocations of middleware i in run r
Invocations(r, i) ==
    {f \in DOMAIN runs[r].frames :
        LET fr == runs[r].frames[f] IN fr.ran /\ fr.fn = "mw" /\ fr.idx = i}

AllDone(r) == Started(r) /\ \A f \in DOMAIN runs[r].frames : Finished(runs[r].frames[f])

\* nothing of run r can take a step any more
Stuck(r) ==
    /\ Started(r)
    /\ running = <<>>
    /\ \A f \in DOMAIN runs[r].frames :
          LET fr == runs[r].frames[f]
          IN /\ fr.st # "yield"
             /\ fr.st = "await" => ~Finished(runs[r].frames[fr.wait])

\* the function is running the code after an awaited continuation call
PostCode(fr) ==
    /\ fr.fn = "mw"
    /\ fr.st = "run"
    /\ fr.ops # <<>>
    /\ fr.ops[Len(fr.ops)] \in {"Await", "AwaitCatch"}

\* no middleware at an index >= i has called its continuation without awaiting
NoFire(r, i) ==
    \A f \in DOMAIN runs[r].frames :
        LET fr == runs[r].frames[f]
        IN fr.fn = "mw" /\ fr.idx >= i => ~Has(fr, "Fire")

\* every middleware at an index < j awaits its continuation and lets a failure pass
Propagates(r, j) ==
    \A f \in DOMAIN runs[r].frames :
        LET fr == runs[r].frames[f]
        IN fr.fn = "mw" /\ fr.idx < j => ~Has(fr, "Fire") /\ ~Has(fr, "AwaitCatch")

----------------------------------------------------------------------------
(* Dispatch chain: C1 - C9 *)

\* C1: a continuation call for index i made when the cursor is already >= i
\* returns a promise rejected with the 'next() called multiple times' error
\* and runs no middleware: it is never taken as a valid call.
C1_DoubleInvocationFails ==
    \A r \in DOMAIN runs : \A f \in DOMAIN runs[r].frames :
        LET fr == runs[r].frames[f]
        IN fr.idx <= fr.seen =>
              /\ ~fr.ran
              /\ fr.fn = "none"
              /\ fr.st = "err"
              /\ fr.err = DoubleErr

\* a middleware has called its continuation again after the first call's
\* downstream work completed, and the second call was refused
C1_Witness ==
    \E r \in DOMAIN runs : \E f \in DOMAIN runs[r].frames :
        LET fr == runs[r].frames[f]
        IN /\ ~fr.ran /\ fr.idx <= fr.seen /\ fr.err = DoubleErr
           /\ fr.by # 0
           /\ Calls(runs[r].frames[fr.by]) = <<"Await", "Await">>

\* C2: whatever the middlewares do, each entry of the list is invoked at
\* most once in a chain run, and leaves at most one start mark.
C2_AtMostOnce ==
    \A r \in DOMAIN runs : \A i \in 0..(Len(middlewares) - 1) :
        /\ Cardinality(Invocations(r, i)) <= 1
        /\ Cardinality({k \in DOMAIN runs[r].ctx : runs[r].ctx[k] = i})
              = Cardinality(Invocations(r, i))

\* a run is over in which a middleware called its continuation twice
C2_Witness ==
    \E r \in DOMAIN runs :
        /\ AllDone(r)
        /\ Len(middlewares) >= 2
        /\ \E f \in DOMAIN runs[r].frames :
              runs[r].frames[f].fn = "mw" /\ Len(Calls(runs[r].frames[f])) >= 2
        /\ \A i \in 0..(Len(middlewares) - 1) : Cardinality(Invocations(r, i)) = 1

\* C3 as stated (its case of an entry 0 that throws nothing itself): whenever
\* entry 0 has called its continuation twice, the chain's promise, once
\* settled, is rejected with the double-invocation error, every later entry
\* having run exactly once.
C3_Original ==
    \A r \in DOMAIN runs :
        (Started(r) /\ Root(r).fn = "mw" /\ Len(Calls(Root(r))) >= 2
            /\ ~Has(Root(r), "Throw") /\ Finished(Root(r)))
        => /\ Root(r).st = "err"
           /\ Root(r).err = DoubleErr
           /\ \A i \in 1..(Len(middlewares) - 1) : Cardinality(Invocations(r, i)) = 1

\* C3 amended: whenever entry 0 calls its continuation twice and awaits the
\* second call without catching its failure, the chain's promise is never
\* fulfilled and is rejected with the double-invocation error; when the
\* failure is observed entry 1 has run exactly once and no entry more than once.
C3_Amended ==
    \A r \in DOMAIN runs :
        (Started(r) /\ Root(r).fn = "mw" /\ Len(Calls(Root(r))) >= 2
            /\ Calls(Root(r))[2] = "Await")
        => /\ Root(r).st \in {"await", "err"}
           /\ Root(r).st = "await" => Finished(runs[r].frames[Root(r).wait])
           /\ Root(r).st = "err" =>
                 /\ Root(r).err = DoubleErr
                 /\ Len(middlewares) >= 2 => Cardinality(Invocations(r, 1)) = 1
                 /\ \A i \in 0..(Len(middlewares) - 1) :
                       Cardinality(Invocations(r, i)) <= 1

\* entry 0 awaited its continuation twice and the chain failed with the
\* double-invocation error after the later entries ran
C3_Witness ==
    \E r \in DOMAIN runs :
        /\ Started(r) /\ Len(middlewares) = 3
        /\ Calls(Root(r)) = <<"Await", "Await">>
        /\ Root(r).st = "err" /\ Root(r).err = DoubleErr
        /\ \A i \in 1..2 : Cardinality(Invocations(r, i)) = 1

\* C4: the middlewares of a run start in list order, entry 0 by chain itself
\* and entry i+1 only by a continuation call made by entry i, which therefore
\* started before it.
C4_StartOrder ==
    \A r \in DOMAIN runs :
        /\ \A a, b \in DOMAIN runs[r].ctx : a < b => runs[r].ctx[a] < runs[r].ctx[b]
        /\ \A f \in DOMAIN runs[r].frames :
              LET fr == runs[r].frames[f]
              IN fr.ran /\ fr.fn = "mw" =>
                    IF fr.idx = 0 THEN fr.by = 0
                    ELSE /\ fr.by \in 1..(f - 1)
                         /\ runs[r].frames[fr.by].fn = "mw"
                         /\ runs[r].frames[fr.by].idx = fr.idx - 1
                         /\ Calls(runs[r].frames[fr.by]) # <<>>

\* three middlewares have started, one after the other
C4_Witness ==
    \E r \in DOMAIN runs : runs[r].ctx = <<0, 1, 2>>

\* C5 as stated (its case of a fulfilled awaited call): whenever a middleware
\* runs the code after its awaited continuation call, every middleware at a
\* higher index has completed.
C5_Original ==
    \A r \in DOMAIN runs : \A f \in DOMAIN runs[r].frames :
        LET fr == runs[r].frames[f]
        IN (PostCode(fr) /\ fr.ops[Len(fr.ops)] = "Await"
              /\ runs[r].frames[fr.wait].st = "ok")
           => \A g \in DOMAIN runs[r].frames :
                 LET gr == runs[r].frames[g]
                 IN gr.ran /\ gr.fn = "mw" /\ gr.idx > fr.idx => Finished(gr)

\* C5 amended: the code after an awaited continuation call runs only after
\* the promise of that call has settled; provided no middleware at an index
\* >= i calls its continuation without awaiting it, all work at indices > i
\* (the terminal included) has completed by then, and no middleware at an
\* index > i runs post-continuation code afterwards (LIFO unwind).
C5_Amended ==
    \A r \in DOMAIN runs :
        /\ \A f \in DOMAIN runs[r].frames :
              LET fr == runs[r].frames[f]
              IN PostCode(fr) =>
                    /\ Finished(runs[r].frames[fr.wait])
                    /\ runs[r].frames[fr.wait].idx = fr.idx + 1
                    /\ NoFire(r, fr.idx) =>
                          \A g \in DOMAIN runs[r].frames :
                              runs[r].frames[g].idx > fr.idx
                                  => Finished(runs[r].frames[g])
        /\ \A a, b \in DOMAIN runs[r].post :
              (a < b /\ NoFire(r, runs[r].post[a]))
                  => runs[r].post[b] <= runs[r].post[a]

\* three middlewares each awaited their continuation and the code after the
\* awaits has run innermost first
C5_Witness ==
    \E r \in DOMAIN runs :
        /\ runs[r].post = <<2, 1, 0>>
        /\ PostCode(Root(r))
        /\ NoFire(r, 0)

\* C6 as stated: once the chain's promise is settled, if a middleware has
\* failed then the chain's promise is rejected.
C6_Original ==
    \A r \in DOMAIN runs : \A f \in DOMAIN runs[r].frames :
        LET fr == runs[r].frames[f]
        IN (fr.ran /\ fr.fn = "mw" /\ fr.st = "err" /\ Finished(Root(r)))
           => Root(r).st = "err"

\* C6 amended, first half: if the middleware at index j fails and every
\* middleware at an index < j awaits its continuation without catching, the
\* chain's promise is never fulfilled and is rejected with that same error.
C6_Rejects ==
    \A r \in DOMAIN runs : \A f \in DOMAIN runs[r].frames :
        LET fr == runs[r].frames[f]
        IN (fr.ran /\ fr.fn = "mw" /\ fr.st = "err" /\ Propagates(r, fr.idx))
           => /\ Root(r).st \in {"await", "err"}
              /\ Root(r).st = "err" => Root(r).err = fr.err
              /\ Stuck(r) => Root(r).st = "err"

\* C6 amended, second half: once the middleware at index j has failed, and
\* no middleware at an index >= j called its continuation without awaiting
\* it, no step starts a middleware at an index > j.
C6_NoneStarted ==
    \A r \in DOMAIN runs : \A f \in DOMAIN runs[r].frames :
        LET fr == runs[r].frames[f]
        IN (fr.ran /\ fr.fn = "mw" /\ fr.st = "err" /\ NoFire(r, fr.idx))
           => \A g \in DOMAIN runs'[r].frames :
                 (g \notin DOMAIN runs[r].frames /\ runs'[r].frames[g].ran)
                     => runs'[r].frames[g].idx <= fr.idx

\* C6 amended: both halves
C6_Amended == []C6_Rejects /\ [][C6_NoneStarted]_vars

\* the last of three middlewares threw and the chain's promise is rejected
\* with its error, the two before it having awaited it
C6_Witness ==
    \E r \in DOMAIN runs :
        /\ Started(r)
        /\ Root(r).st = "err" /\ Root(r).err = AppErr(2)
        /\ Propagates(r, 2)

\* C7 as stated: if the middleware at index i has returned without ever
\* invoking its continuation, then once nothing is left to run the chain's
\* promise is fulfilled.
C7_Original ==
    \A r \in DOMAIN runs : \A f \in DOMAIN runs[r].frames :
        LET fr == runs[r].frames[f]
        IN (fr.ran /\ fr.fn = "mw" /\ fr.st = "ok" /\ Calls(fr) = <<>> /\ Stuck(r))
           => Root(r).st = "ok"

\* C7 amended: if the middleware at index i returns without ever invoking its
\* continuation, no middleware (nor the terminal) at an index > i runs in that
\* run and only the marks up to i are on the context; the chain does not hang,
\* and its promise is fulfilled unless a middleware at an index < i fails.
C7_Amended ==
    \A r \in DOMAIN runs : \A f \in DOMAIN runs[r].frames :
        LET fr == runs[r].frames[f]
        IN (fr.ran /\ fr.fn = "mw" /\ fr.st = "ok" /\ Calls(fr) = <<>>)
           => /\ \A g \in DOMAIN runs[r].frames :
                    runs[r].frames[g].ran => runs[r].frames[g].idx <= fr.idx
              /\ runs[r].ctx = [k \in 1..(fr.idx + 1) |-> k - 1]
              /\ Stuck(r) => Finished(Root(r))
              /\ (Stuck(r) /\ \A g \in DOMAIN runs[r].frames :
                                 (runs[r].frames[g].fn = "mw"
                                    /\ runs[r].frames[g].idx < fr.idx)
                                     => runs[r].frames[g].st # "err")
                    => Root(r).st = "ok"

\* two handlers chained, the first returned without calling its continuation:
\* only its mark is on the context and the chain's promise is fulfilled
C7_Witness ==
    \E r \in DOMAIN runs :
        /\ Len(middlewares) = 2
        /\ Stuck(r)
        /\ Root(r).st = "ok" /\ Calls(Root(r)) = <<>>
        /\ runs[r].ctx = <<0>>

\* C8: a continuation call for the index equal to the list length that the
\* cursor admits runs no middleware, leaves no mark on the context and its
\* promise is fulfilled, never rejected; chain over an empty list is that call.
C8_Terminal ==
    \A r \in DOMAIN runs :
        /\ \A f \in DOMAIN runs[r].frames :
              LET fr == runs[r].frames[f]
              IN (fr.ran /\ fr.idx >= Len(middlewares)) =>
                    /\ fr.fn # "mw"
                    /\ fr.st \in {"run", "await", "ok"}
                    /\ fr.st = "await" => runs[r].frames[fr.wait].st = "ok"
                    /\ Stuck(r) => fr.st = "ok"
        /\ Len(runs[r].ctx) =
              Cardinality({f \in DOMAIN runs[r].frames :
                              runs[r].frames[f].ran
                                  /\ runs[r].frames[f].idx < Len(middlewares)})
        /\ (middlewares = <<>> /\ Started(r)) =>
              /\ runs[r].ctx = <<>>
              /\ Root(r).st # "err"

\* chain over the empty list has completed successfully
C8_Witness ==
    \E r \in DOMAIN runs :
        /\ middlewares = <<>>
        /\ Started(r)
        /\ Root(r).st = "ok"
        /\ runs[r].ctx = <<>>

\* C9: each run's cursor is the highest index that run itself has reached;
\* a run in which every middleware calls its continuation at most once has
\* no call refused with the double-invocation error, whatever the other run did.
C9_IndependentCursors ==
    \A r \in DOMAIN runs :
        /\ \A f \in DOMAIN runs[r].frames :
              runs[r].frames[f].ran => runs[r].frames[f].idx <= runs[r].id
        /\ (runs[r].id = InitialId) = (~Started(r))
        /\ (\A f \in DOMAIN runs[r].frames : Len(Calls(runs[r].frames[f])) <= 1)
              => \A f \in DOMAIN runs[r].frames :
                    /\ runs[r].frames[f].ran
                    /\ runs[r].frames[f].err # DoubleErr

\* a run that started before the other one was suspended, continued past an
\* index the other run had reached meanwhile, and completed successfully
C9_Witness ==
    \E r \in DOMAIN runs :
        /\ AllDone(r)
        /\ Root(r).st = "ok"
        /\ Root(r).fn = "mw"
        /\ Root(r).seenMax = InitialId
        /\ \A f \in DOMAIN runs[r].frames : Len(Calls(runs[r].frames[f])) <= 1
        /\ \E f \in DOMAIN runs[r].frames :
              /\ runs[r].frames[f].ran
              /\ runs[r].frames[f].by = 1
              /\ runs[r].frames[f].idx <= runs[r].frames[f].seenMax

----------------------------------------------------------------------------
(* Route.param: C10 *)

IsInterceptor(m) == m.param # ""

\* C10: in every route's stack every parameter interceptor precedes every
\* regular handler, and the interceptors are in non-decreasing order of the
\* declaration index of their parameter.
C10_InterceptorOrder ==
    \A e \in DOMAIN rstack :
        IsRoute(rstack[e]) =>
            LET st == rstack[e].stack
                ks == rstack[e].keys
            IN \A a, b \in DOMAIN st :
                  a < b =>
                     /\ ~(~IsInterceptor(st[a]) /\ IsInterceptor(st[b]))
                     /\ (IsInterceptor(st[a]) /\ IsInterceptor(st[b]))
                           => /\ IndexOf(ks, st[a].param) >= 0
                              /\ IndexOf(ks, st[a].param) <= IndexOf(ks, st[b].param)

\* /a/:x/:y with handlers: the interceptor of y registered first, that of x
\* second, and x's interceptor is placed before y's
C10_Witness ==
    \E e \in DOMAIN rstack :
        /\ IsRoute(rstack[e])
        /\ rstack[e].keys = <<"x", "y">>
        /\ rstack[e].stack = <<Interceptor("x", 2), Interceptor("y", 1),
                               Handler("h1"), Handler("h2")>>

----------------------------------------------------------------------------
(* Route.param: C11, C15, C16 *)

\* the step is a call of Route.param
RouteParamStep == last'.op = "Route.param" /\ nreg' # nreg

\* the entry is a regular handler or an interceptor of a parameter declared after P
HandlerOrLater(keys, P, m) ==
    ~IsInterceptor(m) \/ IndexOf(keys, m.param) > IndexOf(keys, P)

\* the regular handlers of a stack, in order
Handlers(stack) == SelectSeq(stack, LAMBDA m : ~IsInterceptor(m))

\* C11: Route.param(P, f) for a parameter P the route declares adds exactly one
\* interceptor to the stack; when no stack position holds a regular handler
\* or an interceptor of a later-declared parameter, it is appended at the end.
C11_AddsExactlyOne ==
    [][\A e \in DOMAIN rstack :
          (RouteParamStep /\ IsRoute(rstack[e])
             /\ IndexOf(rstack[e].keys, last'.param) # -1) =>
             LET old == rstack[e].stack
                 new == rstack'[e].stack
                 P   == last'.param
             IN /\ Len(new) = Len(old) + 1
                /\ Len(SelectSeq(new, IsInterceptor))
                      = Len(SelectSeq(old, IsInterceptor)) + 1
                /\ (\A i \in DOMAIN old : ~HandlerOrLater(rstack[e].keys, P, old[i]))
                      => new = Append(old, Interceptor(P, nreg'))]_vars

\* C15: Route.param(P, f) on a route that does not declare P leaves the stack
\* unchanged and returns the route itself.
C15_UndeclaredIsNoOp ==
    [][\A e \in DOMAIN rstack :
          (RouteParamStep /\ IsRoute(rstack[e])
             /\ IndexOf(rstack[e].keys, last'.param) = -1) =>
             /\ rstack'[e] = rstack[e]
             /\ last'.out = This]_vars

\* param("q", f) has been called on /a/:x/:y, which holds handlers and an
\* interceptor, and does not declare q
C15_Witness ==
    \E e \in DOMAIN rstack :
        /\ IsRoute(rstack[e])
        /\ rstack[e].keys = <<"x", "y">>
        /\ last.op = "Route.param" /\ last.param = "q"
        /\ Handlers(rstack[e].stack) = <<Handler("h1"), Handler("h2")>>
        /\ Len(rstack[e].stack) = 3

\* C16: a param() call keeps the route's regular handlers: all still in the
\* stack, each once, in their original relative order.
C16_HandlersKept ==
    [][\A e \in DOMAIN rstack :
          IsRoute(rstack[e]) =>
             /\ e \in DOMAIN rstack'
             /\ Handlers(rstack'[e].stack) = Handlers(rstack[e].stack)]_vars

\* three interceptors have been inserted in front of the two handlers
C16_Witness ==
    \E e \in DOMAIN rstack :
        /\ IsRoute(rstack[e])
        /\ Len(rstack[e].stack) = 5
        /\ Len(SelectSeq(rstack[e].stack, IsInterceptor)) = 3
        /\ Handlers(rstack[e].stack) = <<Handler("h1"), Handler("h2")>>

----------------------------------------------------------------------------
(* Router: C12 - C14, C17 - C20 *)

\* the methods that register a Route
RegistrationOps == {"all", "get", "put", "post", "delete", "redirect"}

\* the latest call registered a Route: it is the last entry of the stack
Registered == last.op \in RegistrationOps /\ last.out = This

NewestEntry == rstack[Len(rstack)]

InSeq(seq, x) == \E i \in DOMAIN seq : seq[i] = x

\* C12: after any interleaving of Router.param calls and route registrations,
\* every Route of the Router that declares a parameter for which an
\* interceptor is remembered has an interceptor for it in its stack, whether
\* the Route was registered before or after the param call.
C12_EveryRouteIntercepted ==
    \A e \in rparams : \A i \in DOMAIN rstack :
        (IsRoute(rstack[i]) /\ IndexOf(rstack[i].keys, e.param) # -1) =>
            \E k \in DOMAIN rstack[i].stack : rstack[i].stack[k].param = e.param

\* C13: a Route declared for GET stores GET in its method set and, HEAD not
\* being declared separately, HEAD as well.
C13_GetServesHead ==
    (Registered /\ InSeq(last.methods, "GET")) =>
        /\ InSeq(NewestEntry.methods, "GET")
        /\ InSeq(NewestEntry.methods, "HEAD")

\* C14: the method set a Route stores contains every method of its
\* declaration, upper-cased; a route registered through Router.all serves
\* GET, PUT, POST and DELETE.
C14_StoresDeclaredMethods ==
    Registered =>
        /\ \A k \in DOMAIN last.methods :
              InSeq(NewestEntry.methods, Upper(last.methods[k]))
        /\ last.op = "all" =>
              \A m \in {"GET", "PUT", "POST", "DELETE"} : InSeq(NewestEntry.methods, m)

\* the chain of a request: in stack order, every bare middleware and the
\* stack of every Route that matches the path and serves the method
RECURSIVE EffectiveChain(_, _, _)
EffectiveChain(stack, method, path) ==
    IF stack = <<>> THEN <<>>
    ELSE LET e    == Head(stack)
             mine == IF ~IsRoute(e) THEN <<Handler(e.h)>>
                     ELSE IF RouteMatch(e, path) /\ InSeq(e.methods, method)
                          THEN e.stack
                          ELSE <<>>
         IN mine \o EffectiveChain(Tail(stack), method, path)

\* C17: what the Router hands to the dispatch chain runs, for every request
\* (method, path), the concatenation in stack order of every bare middleware
\* and of the stack of every matching Route, and nothing of the others.
C17_HandsEffectiveChain ==
    last.op = "routes" =>
        \A method \in ReqMethods, path \in ReqPaths :
            LET ran  == RunBy(last.out, method, path)
                want == EffectiveChain(rstack, method, path)
            IN Len(ran) = Len(want) /\ ran = want

\* the same entry of the Router's stack: the same bare middleware, or the
\* same Route whatever interceptors its own stack has received
SameEntry(a, b) ==
    /\ a.kind = b.kind
    /\ IF IsRoute(a) THEN [b EXCEPT !.stack = a.stack] = a ELSE a = b

\* C18: use and the route registrations only append to the Router's stack:
\* every step keeps the earlier entries at their positions, use appends its
\* middlewares in the order given, a registration appends its one Route.
C18_AppendOnly ==
    [][/\ Len(rstack') >= Len(rstack)
       /\ \A i \in DOMAIN rstack : SameEntry(rstack[i], rstack'[i])
       /\ last'.op = "use" =>
             /\ Len(rstack') = Len(rstack) + Len(last'.mws)
             /\ \A k \in DOMAIN last'.mws :
                   rstack'[Len(rstack) + k] = Bare(last'.mws[k])
       /\ (last'.op \in RegistrationOps /\ last'.out = This) =>
             /\ Len(rstack') = Len(rstack) + 1
             /\ IsRoute(rstack'[Len(rstack')])
             /\ rstack'[Len(rstack')].path = last'.path
             /\ Handlers(rstack'[Len(rstack')].stack)
                   = [k \in DOMAIN last'.mws |-> Handler(last'.mws[k])]
      ]_vars

\* a Route was registered first and has received an interceptor since, and
\* use(m1, m2) has then appended its two middlewares behind it, in order
C18_Witness ==
    /\ Len(rstack) = 3
    /\ IsRoute(rstack[1])
    /\ \E k \in DOMAIN rstack[1].stack : IsInterceptor(rstack[1].stack[k])
    /\ rstack[2] = Bare("m1")
    /\ rstack[3] = Bare("m2")
    /\ last.op = "use"

\* the Routes registered in the Router under the name (first argument) N
RegisteredUnder(N) == {i \in DOMAIN rstack : IsRoute(rstack[i]) /\ rstack[i].path = N}

\* C19: Router.url(N, params) returns what url(params) of the Route
\* registered under N returns, and null when no Route was registered under N.
C19_UrlDelegates ==
    last.op = "url" =>
        LET regd == RegisteredUnder(last.path)
        IN IF regd = {}
           THEN last.out = Null
           ELSE \E i \in regd :
                   /\ \A j \in regd : i <= j
                   /\ last.out.t = RouteUrl(rstack[i], last.params).t
                   /\ last.out = RouteUrl(rstack[i], last.params)

\* C20: a route registration whose middleware list holds a non-callable
\* entry throws, and the Router's stack is what it was before the call.
C20_BadListRegistersNothing ==
    [][(last'.op \in RegistrationOps /\ InSeq(last'.mws, "notfn")) =>
          /\ last'.out = Thrown("Error")
          /\ rstack' = rstack]_vars

\* post(path, h1, notfn) has thrown on a Router that holds entries
C20_Witness ==
    /\ last.op = "post"
    /\ last.mws = <<"h1", "notfn">>
    /\ last.out = Thrown("Error")
    /\ Len(rstack) >= 1

----------------------------------------------------------------------------
(* Router.redirect: C21 *)

\* the string does not start with '/': it is meant as the name of a route
IsName(s) == s[1].t = "name"

\* the string can be resolved to a path in this state of the Router
Resolvable(s) == ~IsName(s) \/ RegisteredUnder(s) # {}

\* C21: a redirect whose src or dst neither starts with '/' nor names a
\* registered route throws, and the Router's stack is what it was before.
C21_UnresolvedRedirectThrows ==
    [][(last'.op = "redirect" /\ last' # last
          /\ (~Resolvable(last'.path) \/ ~Resolvable(last'.dst))) =>
          /\ last'.out = Thrown("TypeError")
          /\ rstack' = rstack]_vars

\* redirect('/a', 'home') has thrown on a Router that holds a Route
C21_Witness ==
    /\ last.op = "redirect"
    /\ ~IsName(last.path) /\ IsName(last.dst)
    /\ last.out = Thrown("TypeError")
    /\ \E i \in DOMAIN rstack : IsRoute(rstack[i])

----------------------------------------------------------------------------
(* Response, and the handler Router.redirect registers *)

\* #length while it is undefined or null
NoLength == -1

\* the response side of a Context: ctx.res.status, #explicitStatus, the
\* Location and Content-Type headers, #body, #length; `thrown` when a setter
\* threw
NewResponse_ok ==
    [status |-> 200, explicit |-> FALSE, location |-> <<>>, type |-> "",
     body |-> "null", len |-> NoLength, thrown |-> FALSE]
NewResponse ==
    [status |-> 404, explicit |-> FALSE, location |-> <<>>, type |-> "",
     body |-> "null", len |-> NoLength, thrown |-> FALSE]

\* the responses a handler can find: that of a new Context, or one whose
\* status an earlier middleware has assigned
StatusesBefore == {200, 302, 500}
ResponsesBefore ==
    {NewResponse} \cup {[NewResponse EXCEPT !.status = v, !.explicit = TRUE] :
                            v \in StatusesBefore}

\* set status(value)
SetStatus(res, value) ==
    IF value < 100 \/ value > 600
    THEN [res EXCEPT !.thrown = TRUE]
    ELSE [res EXCEPT !.status = value, !.explicit = TRUE]

\* set type(value): the Content-Type header
SetType(res, value) == [res EXCEPT !.type = value]

\* the body values in use: null ("null"), values that are neither string,
\* bytes nor reader ("object", "number"), and strings, which are every
\* other value
IsNullBody(value)   == value = "null"
IsStringBody(value) == value \notin {"null", "object", "number"}

\* byteLength(value) of a string, and of JSON.stringify(value) otherwise
\* ("object" is {}, "number" is 7, "html" is <p/>)
ByteLength(value) ==
    CASE value = ""       -> 0
      [] value = "ab"     -> 2
      [] value = "object" -> 2
      [] value = "number" -> 1
      [] value = "html"   -> 4
      [] value = "text"   -> 4
      [] OTHER            -> 6

\* set body(value).  null: a status of 204, 205 or 304 becomes 204, the
\* Content-Type header is removed, and the setter returns.  Otherwise:
\* status 200 unless a status was assigned before; for a string the
\* Content-Type only when not yet set, and #length; for the other values
\* #length is cleared and the type is json
SetBody_always200(res, value) ==
    LET r1 == [res EXCEPT !.body = value]
    IN IF IsNullBody(value)
       THEN [r1 EXCEPT !.status = IF @ \in {204, 205, 304} THEN 204 ELSE @,
                       !.type = ""]
       ELSE LET r2 == SetStatus(r1, 200)
            IN IF IsStringBody(value)
               THEN [(IF r2.type = ""
                      THEN SetType(r2, IF value = "html" THEN "html" ELSE "text")
                      ELSE r2) EXCEPT !.len = ByteLength(value)]
               ELSE SetType([r2 EXCEPT !.len = NoLength], "json")
SetBody(res, value) ==
    LET r1 == [res EXCEPT !.body = value]
    IN IF IsNullBody(value)
       THEN [r1 EXCEPT !.status = IF @ \in {204, 205, 304} THEN 204 ELSE @,
                       !.type = ""]
       ELSE LET r2 == IF ~r1.explicit THEN SetStatus(r1, 200) ELSE r1
            IN IF IsStringBody(value)
               THEN [(IF r2.type = ""
                      THEN SetType(r2, IF value = "html" THEN "html" ELSE "text")
                      ELSE r2) EXCEPT !.len = ByteLength(value)]
               ELSE SetType([r2 EXCEPT !.len = NoLength], "json")

\* encodeURI on one segment: a space is escaped, the other characters in
\* use are kept
EncodeURI(seg) == IF seg = "n w" THEN "n%20w" ELSE seg

\* a path as written, and as encodeURI returns it
Plain(path)   == [i \in DOMAIN path |-> path[i].v]
Encoded(path) == [i \in DOMAIN path |-> EncodeURI(path[i].v)]

\* Response.redirect(url) for a url other than 'back'
ResponseRedirect(res, url, html) ==
    LET r1 == [res EXCEPT !.location = Encoded(url)]
        r2 == IF r1.status >= 300 /\ r1.status <= 308 THEN SetStatus(r1, 302) ELSE r1
    IN IF html
       THEN SetBody(SetType(r2, "text/html; charset=utf-8"), "html")
       ELSE SetBody(SetType(r2, "text/plain; charset=utf-8"), "text")

\* ctx => { ctx.redirect(dstUrl); ctx.status = status }
RedirectHandler_statusFirst(res, dstUrl, status, html) ==
    ResponseRedirect(SetStatus(res, status), dstUrl, html)
RedirectHandler(res, dstUrl, status, html) ==
    SetStatus(ResponseRedirect(res, dstUrl, html), status)

\* the destinations and statuses redirect() is called with
RedirectDsts     == { <<Lit("a")>>, <<Lit("n w")>>, <<Nm("home")>> }
RedirectStatuses == {DefaultStatus, 307, 700}

\* the handler of the Route the latest redirect() registered is run on a
\* context; it takes ctx only, so it has no continuation to call
RunRedirect(res, html) ==
    /\ last.op = "redirect" /\ last.out = This
    /\ LET route == rstack[Len(rstack)]
           after == RedirectHandler(res, last.dst, last.status, html)
       IN pure' = [op |-> "redirect handler", handlers |-> Len(route.stack),
                   before |-> res, html |-> html, dst |-> last.dst,
                   status |-> last.status, res |-> after, next |-> FALSE]
    /\ UNCHANGED <<routerVars, chainVars, srv>>

InitRedirect == InitRouter

NextRedirect ==
    \/ \E src \in RouterPaths, dst \in RedirectDsts, status \in RedirectStatuses :
          RouterRedirectWith(src, dst, status)
    \/ \E res \in ResponsesBefore, html \in BOOLEAN : RunRedirect(res, html)

SpecRedirect == InitRedirect /\ [][NextRedirect]_vars

----------------------------------------------------------------------------
(* The redirect handler: C22 *)

RedirectRan == pure.op = "redirect handler"

\* C22 as stated: the route registered by redirect(src, dst, status) has a
\* single handler which leaves the response with status `status` and
\* Location equal to the destination path, and calls no continuation.
C22_Original ==
    RedirectRan =>
        /\ pure.handlers = 1
        /\ ~pure.next
        /\ pure.res.status = pure.status
        /\ pure.res.location = Plain(pure.dst)

\* C22 amended: for a status in 100..600 the handler leaves the response
\* with that status and with Location the URI-encoded destination path;
\* for any other status the assignment of the status throws; the route has
\* the single handler, which calls no continuation.
C22_Amended ==
    RedirectRan =>
        /\ pure.handlers = 1
        /\ ~pure.next
        /\ pure.res.location = Encoded(pure.dst)
        /\ IF pure.status >= 100 /\ pure.status <= 600
           THEN pure.res.status = pure.status /\ ~pure.res.thrown
           ELSE pure.res.thrown

\* the default status 301 was given and the handler ran on a context whose
\* status was 302 before: redirect() assigns 302, the handler then 301
C22_Witness ==
    /\ RedirectRan
    /\ pure.before.status = 302
    /\ pure.status = DefaultStatus
    /\ pure.res.status = DefaultStatus
    /\ pure.dst = <<Lit("n w")>>
    /\ pure.res.location = <<"n%20w">>

----------------------------------------------------------------------------
(* Calls of a Route's match, captures, params and url *)

\* request paths, as segments
FnPaths ==
    { <<"a">>, <<"a", "a%20b">>, <<"a", "1", "%zz">>, <<"b", "2", "1">>, <<"c">> }

\* raw captures: plain, percent-encoded, malformed
CaptureVals == {"1", "a%20b", "%zz"}

RECURSIVE SeqsUpTo(_, _)
SeqsUpTo(S, n) ==
    IF n = 0 THEN { <<>> }
    ELSE LET shorter == SeqsUpTo(S, n - 1)
         IN shorter \cup {Append(q, x) : q \in shorter, x \in S}

CaptureLists == SeqsUpTo(CaptureVals, MaxCaptures)

\* parameter maps accumulated before params() is called
ExistingMaps == { EmptyMap, [k \in {"x"} |-> "0"], [k \in {"z"} |-> "9"] }

\* the values url() is given for parameters
UrlVals == {"1", "a b", "%41", "a/b"}

\* the params arguments of url(): not given, objects binding some of x and
\* y, arrays of up to two values
UrlParamArgs ==
    {NoParams}
      \cup {ObjectParams(m) : m \in UNION {[S -> UrlVals] : S \in SUBSET {"x", "y"}}}
      \cup {ArrayParams(q) : q \in SeqsUpTo(UrlVals, 2)}

Queries == {"none", "string", "object"}

TheRoute == rstack[1]

CallMatch(path) ==
    /\ pure' = [op |-> "match", path |-> path, out |-> RouteMatch(TheRoute, path)]
    /\ UNCHANGED <<routerVars, chainVars, srv>>

CallCaptures(path) ==
    /\ pure' = [op |-> "captures", path |-> path,
                out |-> RouteCaptures(TheRoute, path)]
    /\ UNCHANGED <<routerVars, chainVars, srv>>

CallParams(captures, existing) ==
    /\ pure' = [op |-> "params", captures |-> captures, existing |-> existing,
                out |-> RouteParams(TheRoute, captures, existing)]
    /\ UNCHANGED <<routerVars, chainVars, srv>>

CallRouteUrl(params, query) ==
    /\ pure' = [op |-> "url", params |-> params, query |-> query,
                out |-> RouteUrlOf(TheRoute, params, query)]
    /\ UNCHANGED <<routerVars, chainVars, srv>>

\* a Route as the Router constructs it, then any calls of its functions
InitRouteFns ==
    /\ \E path \in Paths : rstack = <<NewRoute(path, <<"GET">>, <<"h1">>)>>
    /\ rparams = {}
    /\ nreg = 0
    /\ last = NoCall
    /\ InitChainIdle
    /\ InitAppIdle

NextRouteFns ==
    \/ \E path \in FnPaths : CallMatch(path)
    \/ \E path \in FnPaths : CallCaptures(path)
    \/ \E captures \in CaptureLists, existing \in ExistingMaps :
          CallParams(captures, existing)
    \/ \E params \in UrlParamArgs, query \in Queries : CallRouteUrl(params, query)

SpecRouteFns == InitRouteFns /\ [][NextRouteFns]_vars

----------------------------------------------------------------------------
(* Route.params: C23, C24 *)

\* the keys params() writes: the declared names that have a capture
Written(route, captures) ==
    {route.keys[i] : i \in 1..Min(Len(route.keys), Len(captures))}

\* C23: Route.params returns a map (it does not fail) in which every
\* declared parameter that has a capture holds the percent-decoded capture,
\* or the raw capture when the capture is malformed.
C23_DecodedOrRaw ==
    pure.op = "params" =>
        \A i \in 1..Min(Len(TheRoute.keys), Len(pure.captures)) :
            LET key == TheRoute.keys[i]
                raw == pure.captures[i]
            IN /\ key \in DOMAIN pure.out
               /\ pure.out[key] = IF Decode(raw).null THEN raw ELSE Decode(raw).v

\* /a/:x/:y got a percent-encoded capture for x and a malformed one for y
C23_Witness ==
    /\ pure.op = "params"
    /\ TheRoute.keys = <<"x", "y">>
    /\ pure.captures = <<"a%20b", "%zz">>
    /\ pure.out["x"] = "a b"
    /\ pure.out["y"] = "%zz"

\* C24: Route.params writes only the declared names that have a capture;
\* every other entry of the map it was given is kept, and without captures
\* the map is returned as it was.
C24_OnlyDeclaredWritten ==
    pure.op = "params" =>
        LET written == Written(TheRoute, pure.captures)
        IN /\ DOMAIN pure.out = DOMAIN pure.existing \cup written
           /\ \A k \in DOMAIN pure.existing \ written :
                 pure.out[k] = pure.existing[k]
           /\ pure.captures = <<>> => pure.out = pure.existing

\* /a/:x got two captures and a map holding z, the entry of an outer
\* router: x is written from the first capture, z is kept, the second
\* capture is written nowhere
C24_Witness ==
    /\ pure.op = "params"
    /\ TheRoute.keys = <<"x">>
    /\ pure.captures = <<"1", "%zz">>
    /\ pure.existing = [k \in {"z"} |-> "9"]
    /\ pure.out = [k \in {"x", "z"} |-> IF k = "x" THEN "1" ELSE "9"]

----------------------------------------------------------------------------
(* Route.captures: C25 *)

\* C25: for a path the Route matches, captures returns as many values as
\* the Route declares parameters, the i-th being the segment the i-th
\* declared parameter stands for.
C25_CapturesAligned ==
    (pure.op = "captures" /\ RouteMatch(TheRoute, pure.path)) =>
        /\ Len(pure.out) = Len(TheRoute.keys)
        /\ \A i \in DOMAIN pure.out : \A j \in DOMAIN TheRoute.path :
              TheRoute.path[j] = Par(TheRoute.keys[i]) => pure.out[i] = pure.path[j]

\* /b/:y/:x matched /b/2/1: y is declared first and captured first
C25_Witness ==
    /\ pure.op = "captures"
    /\ TheRoute.keys = <<"y", "x">>
    /\ pure.path = <<"b", "2", "1">>
    /\ pure.out = <<"2", "1">>

----------------------------------------------------------------------------
(* Route.url: C26, C27 *)

\* the query as it is appended to a path
Appended(query) == IF query = "string" THEN "?given" ELSE "?serialized"

\* C26: Route.url called with a query returns the generated path with the
\* query appended (given verbatim or serialized) and does not fail.
C26_QueryAppended ==
    (pure.op = "url" /\ pure.query # "none"
       /\ RouteUrlOf(TheRoute, pure.params, "none").t = "string") =>
        /\ pure.out.t = "string"
        /\ pure.out.v = Append(RouteUrlOf(TheRoute, pure.params, "none").v,
                               Appended(pure.query))

\* the value has none of the reserved characters of a URI
NoReserved(v) == v # "a/b"

\* C27: for parameters bound to values without reserved characters, the
\* Route matches url(params), and params(captures(url(params))) is params.
C27_RoundTrip ==
    (pure.op = "url" /\ pure.query = "none" /\ pure.params.kind = "object"
       /\ DOMAIN pure.params.v = {TheRoute.keys[i] : i \in DOMAIN TheRoute.keys}
       /\ \A n \in DOMAIN pure.params.v : NoReserved(pure.params.v[n])) =>
        /\ pure.out.t = "string"
        /\ RouteMatch(TheRoute, pure.out.v)
        /\ RouteParams(TheRoute, RouteCaptures(TheRoute, pure.out.v), EmptyMap)
              = pure.params.v

----------------------------------------------------------------------------
(* App.startListen: the serving loop *)

\* a value that is not an Error, thrown by middleware i (throw 'text')
ValErr(i) == [kind |-> "value", by |-> i]

\* ex instanceof Error
IsError(err) == err.kind # "value"

\* The running middleware throws a value that is not an Error
ThrowValue(maxOps) ==
    /\ running # <<>>
    /\ LET r  == Top[1]
           f  == Top[2]
           fr == runs[r].frames[f]
       IN /\ fr.fn = "mw" /\ runs[r].steps < maxOps
          /\ runs' = [runs EXCEPT ![r].frames[f] =
                        [fr EXCEPT !.ops = Append(@, "Throw"), !.st = "err",
                                   !.err = ValErr(fr.idx)],
                                   ![r].steps = @ + 1]
    /\ running' = Pop(running)
    /\ UNCHANGED <<middlewares, routerVars, appVars>>

\* new Context(app, req), the n-th object of its kind to be constructed: the
\* Context and the response record made with it (status 404, new Headers)
\* are new objects
NewContext_shared(n) == [id |-> 1, rec |-> 1, res |-> NewResponse]
NewContext(n) == [id |-> n, rec |-> n, res |-> NewResponse]

\* no Context
NoContext == [id |-> 0, rec |-> 0, res |-> NewResponse]

\* what the loop did for one request: whether it took it from the server,
\* the Context its chain was given, how its chain ended ("" while it has
\* not), what the middlewares of the chain assigned, the respond calls made
\* for it with the status and body of the last one, the errors handed to
\* onError, whether the loop body is over for it
NewEntry == [accepted |-> FALSE, ctx |-> NoContext, chain |-> "",
             set |-> <<0, "null">>, responds |-> 0, status |-> 0, sent |-> "",
             onerror |-> <<>>, over |-> FALSE]

\* the statuses a middleware assigns; 0: none assigns a status
AssignStatuses == {0, 201}

\* the bodies a Context can hold when its chain has completed: none, a
\* string, a value that is neither string, bytes, reader nor JSON object
Bodies == {"null", "string", "number"}

\* the body startListen can send as it is
Sendable(body) == body \in {"null", "string"}

\* the response after ctx.status = status (unless 0) and ctx.body = body
\* (unless "null") were assigned by middlewares
Assigned(res, status, body) ==
    LET r1 == IF status = 0 THEN res ELSE SetStatus(res, status)
    IN IF body = "null" THEN r1 ELSE SetBody(r1, body)

\* the request the loop is to take next: the first one not yet taken
NextRequest(r) ==
    /\ r \in DOMAIN srv.log
    /\ ~srv.log[r].accepted
    /\ \A q \in 1..(r - 1) : srv.log[q].accepted

\* for await (const req of server): the loop asks for the next request
\* when the body of the previous iteration is over, and not before
CanAccept(r) == srv.loop = "serving" /\ srv.cur = 0 /\ NextRequest(r)

\* one iteration starts: new Context(this, req), chain(ctx, this.middlewares)
Accept(r) ==
    /\ CanAccept(r)
    /\ Chain(r)
    /\ srv' = [srv EXCEPT !.cur = r, !.made = @ + 1,
                           !.log[r].accepted = TRUE,
                           !.log[r].ctx = NewContext(srv.made + 1)]
    /\ UNCHANGED <<middlewares, routerVars, pure>>

\* the default error handler: it throws a TypeError for a value that is not
\* an Error, and otherwise returns (after logging)
OnErrorThrows(err) == ~IsError(err)

\* the rest of the iteration, run when the awaited chain has settled.
\* Fulfilled: the body is checked and req.respond is called with status,
\* headers and body of the Context, or the TypeError('Body invalid!') is
\* thrown.  Whatever was thrown in the try block is handed to onError and
\* nothing else is done; what onError itself throws leaves the loop.
Complete(status, body) ==
    /\ srv.loop = "serving"
    /\ srv.cur # 0
    /\ running = <<>>
    /\ LET r    == srv.cur
           root == runs[r].frames[1]
           ran  == \E f \in DOMAIN runs[r].frames : runs[r].frames[f].fn = "mw"
           res  == Assigned(srv.log[r].ctx.res, status, body)
       IN /\ Settled(root)
          /\ (status # 0 \/ body # "null") => ran
          /\ IF ~Rejected(root) /\ Sendable(res.body)
             THEN srv' = [srv EXCEPT !.cur = 0,
                                     !.log[r].ctx.res = res,
                                     !.log[r].set = <<status, body>>,
                                     !.log[r].chain = "ok",
                                     !.log[r].responds = @ + 1,
                                     !.log[r].status = res.status,
                                     !.log[r].sent = res.body,
                                     !.log[r].over = TRUE]
             ELSE LET ex == IF Rejected(root) THEN root.err ELSE TypeErr
                  IN srv' = [srv EXCEPT
                               !.cur = 0,
                               !.log[r].ctx.res = res,
                               !.log[r].set = <<status, body>>,
                               !.loop = IF OnErrorThrows(ex) THEN "ended" ELSE @,
                               !.log[r].chain = IF Rejected(root) THEN "err" ELSE "ok",
                               !.log[r].onerror = Append(@, ex.kind),
                               !.log[r].over = TRUE]
    /\ UNCHANGED <<chainVars, routerVars, pure>>

\* app.listen() with two requests arriving, over any list of up to
\* MaxConcLen middlewares
InitServe ==
    /\ \E n \in 0..MaxConcLen : middlewares = MwNames(n)
    /\ runs = <<NewRun, NewRun>>
    /\ running = <<>>
    /\ InitRouterIdle
    /\ srv = [loop |-> "serving", cur |-> 0, made |-> 0,
              log |-> <<NewEntry, NewEntry>>]
    /\ pure = NoPure

ServeNext ==
    \/ \E r \in DOMAIN runs : Accept(r)
    \/ \E mode \in {"Await", "Fire"} : CallNext(mode, MaxConcOps)
    \/ Yield(MaxConcOps)
    \/ Throw(MaxConcOps)
    \/ ThrowValue(MaxConcOps)
    \/ Return
    \/ ResumeAny
    \/ \E status \in AssignStatuses, body \in Bodies : Complete(status, body)

SpecServe == InitServe /\ [][ServeNext]_vars

----------------------------------------------------------------------------
(* The serving loop: C28 - C30 *)

\* the chain of request q was started and has not settled: it is suspended
\* whenever nothing is running
InFlight(q) == srv.log[q].accepted /\ ~Settled(runs[q].frames[1])

\* C28: requests are dispatched in parallel: while the chain of an earlier
\* request is suspended, the server can start the chain of the request
\* that arrived next.
C28_ParallelDispatch ==
    \A r \in DOMAIN runs :
        (/\ srv.loop = "serving" /\ NextRequest(r)
         /\ running = <<>>
         /\ \E q \in DOMAIN runs : q < r /\ InFlight(q)) => CanAccept(r)

\* C29: after a request's chain has failed, with the double-invocation
\* error or with any value a handler threw, the loop is still serving.
C29_LoopKeepsServing ==
    \A r \in DOMAIN srv.log :
        (srv.log[r].over /\ srv.log[r].chain = "err") => srv.loop = "serving"

\* C30: a request whose iteration is over was answered by exactly one
\* respond call, carrying the body of its Context, both when its chain was
\* fulfilled and when it failed.
C30_AnsweredOnce ==
    \A r \in DOMAIN srv.log :
        srv.log[r].over => srv.log[r].responds = 1

----------------------------------------------------------------------------
(* Configuration calls made while requests are served *)

\* an application with a Router and no middleware of its own, listening for
\* one request; calls on the Router can be made at any time
InitConfigure ==
    /\ middlewares = <<>>
    /\ runs = <<NewRun>>
    /\ running = <<>>
    /\ InitRouterIdle
    /\ srv = [loop |-> "serving", cur |-> 0, made |-> 0, log |-> <<NewEntry>>]
    /\ pure = NoPure

ConfigureNext ==
    \/ \E mws \in UseLists : RouterUse(mws)
    \/ \E path \in RouterPaths, mws \in RouterHandlerLists : RouterGet(path, mws)
    \/ \E src \in RouteNames, dst \in RouteNames : RouterRedirect(src, dst)
    \/ \E param \in RouterParamNames : RouterParam(param)
    \/ \E r \in DOMAIN runs : Accept(r)
    \/ CallNext("Await", MaxConcOps)
    \/ Return
    \/ \E r \in DOMAIN runs : \E f \in DOMAIN runs[r].frames : ResumeAwait(r, f)
    \/ \E status \in AssignStatuses, body \in Bodies : Complete(status, body)

SpecConfigure == InitConfigure /\ [][ConfigureNext]_vars

\* the dispatch of some request has started
DispatchStarted == \E r \in DOMAIN runs : runs[r].started

\* C31: once the first dispatch has started, no step changes the Router's
\* stack (the stacks of its Routes included) or its remembered interceptors.
C31_FrozenAfterDispatch ==
    [][DispatchStarted => (rstack' = rstack /\ rparams' = rparams)]_vars

----------------------------------------------------------------------------
(* Contexts and the default response: C32, C33 *)

\* the requests the loop has taken from the server
AcceptedRequests == {r \in DOMAIN srv.log : srv.log[r].accepted}

\* C32: as many Contexts were constructed as requests were accepted, a chain
\* that has started was given the Context made for its request, and the
\* chains of two requests never have the same Context or the same response
\* record.
C32_OneContextPerRequest ==
    /\ srv.made = Cardinality(AcceptedRequests)
    /\ \A r \in DOMAIN runs : runs[r].started => srv.log[r].ctx.id # 0
    /\ \A r \in AcceptedRequests, q \in AcceptedRequests :
          r # q => /\ srv.log[r].ctx.id # srv.log[q].ctx.id
                   /\ srv.log[r].ctx.rec # srv.log[q].ctx.rec

\* both requests were accepted and the chain of the second has started
C32_Witness ==
    /\ AcceptedRequests = DOMAIN runs
    /\ \A r \in DOMAIN runs : runs[r].started

\* the chain of request r was fulfilled and no middleware assigned a status
\* or a body
CompletedUntouched(r) ==
    /\ srv.log[r].over
    /\ srv.log[r].chain = "ok"
    /\ srv.log[r].set = <<0, "null">>

\* C33: a request whose chain completes without any middleware assigning a
\* status or a body is answered once, with status 404 and no body.
C33_NotFoundByDefault ==
    \A r \in DOMAIN srv.log :
        CompletedUntouched(r) =>
            /\ srv.log[r].responds = 1
            /\ srv.log[r].status = 404
            /\ srv.log[r].sent = "null"

\* a middleware ran for the request and assigned nothing
C33_Witness ==
    \E r \in DOMAIN srv.log :
        /\ CompletedUntouched(r)
        /\ runs[r].ctx # <<>>
        /\ srv.log[r].responds = 1

----------------------------------------------------------------------------
(* App.use while a chain runs *)

MaxUses == 1      \* most App.use calls made after the application started

\* the chain runs that have started and whose promise has not settled
Unsettled == {r \in DOMAIN runs : runs[r].started /\ ~Settled(runs[r].frames[1])}

\* how many App.use calls were made since the application started
UsesMade == IF pure.op = "use" THEN pure.n ELSE 0

\* App.use(middleware), called from the event loop: the middleware is pushed
\* to the list the chains were handed.  The call is recorded with the runs
\* that were suspended when it was made.
AppUse ==
    /\ running = <<>>
    /\ UsesMade < MaxUses
    /\ LET mw == Len(middlewares)
       IN /\ middlewares' = Append(middlewares, mw)
          /\ pure' = [op |-> "use", n |-> UsesMade + 1, mw |-> mw,
                      during |-> Unsettled]
    /\ UNCHANGED <<runs, running, routerVars, srv>>

\* one request over any list of up to MaxConcLen middlewares, and App.use
\* calls made at any time
InitUse ==
    /\ \E n \in 0..MaxConcLen : middlewares = MwNames(n)
    /\ runs = <<NewRun>>
    /\ running = <<>>
    /\ InitRouterIdle
    /\ InitAppIdle

UseNext ==
    \/ \E r \in DOMAIN runs : StartChain(r)
    \/ \E mode \in {"Await", "Fire"} : CallNext(mode, MaxConcOps)
    \/ Yield(MaxConcOps)
    \/ Return
    \/ ResumeAny
    \/ AppUse

SpecUse == InitUse /\ [][UseNext]_vars

\* C34: a middleware appended by App.use while a run was suspended is never
\* executed by that run.
C34_ListFixedAtStart ==
    pure.op = "use" =>
        \A r \in pure.during : ~InSeq(runs[r].ctx, pure.mw)

----------------------------------------------------------------------------
(* Assignments and reads on the Response and Request of one Context *)

MaxResponseOps == 3   \* most assignments and reads made on one Context

\* get length(): #length when it is set; otherwise 0 for a body that is
\* null or empty and the byte length of the body (of its JSON text when it
\* is not a string) for the others, which is stored in #length
LengthOf(res) ==
    IF res.len # NoLength
    THEN [len |-> res.len, res |-> res]
    ELSE LET len == IF res.body \in {"null", ""} THEN 0 ELSE ByteLength(res.body)
         IN [len |-> len, res |-> [res EXCEPT !.len = len]]

\* method == 'GET' || method == 'HEAD'
MethodValid(method) == method \in {"GET", "HEAD"}

\* the condition under which Request.fresh asks fresh(): && binds tighter
\* than ||
Validated(method, status) ==
    (MethodValid(method) /\ status >= 200 /\ status < 300) \/ status = 304

\* get fresh(): the stored #fresh when there is one; otherwise what fresh()
\* says of the request and response headers (`match`) when the condition
\* holds, false when it does not; the value is stored
RequestFresh(cached, method, status, match) ==
    IF cached # "unset" THEN cached = "true"
    ELSE IF Validated(method, status) THEN match ELSE FALSE

\* #fresh holding a value
Stored(b) == IF b THEN "true" ELSE "false"

\* the then() of the conditional middleware:
\* if (ctx.fresh) { ctx.status = 304; ctx.body = null }
Conditional(res, isFresh) ==
    IF isFresh THEN SetBody(SetStatus(res, 304), "null") ELSE res

\* the statuses and bodies assigned, the request methods
ResponseStatuses == {304, 500}
ResponseBodies   == {"null", "", "ab", "object"}
RequestMethods   == {"GET", "HEAD", "POST"}

\* one assignment or read: which, the value assigned, the value read
Op(op) == [op |-> op, status |-> 0, body |-> "", len |-> NoLength, fresh |-> FALSE]

\* a Context is in use, and can take one more assignment or read
CanOperate == pure.op = "context" /\ Len(pure.hist) < MaxResponseOps

\* ctx.status = value
AssignStatus(value) ==
    /\ CanOperate
    /\ pure' = [pure EXCEPT !.res = SetStatus(@, value),
                            !.hist = Append(@, [Op("status") EXCEPT !.status = value])]
    /\ UNCHANGED <<chainVars, routerVars, srv>>

\* ctx.body = value
AssignBody(value) ==
    /\ CanOperate
    /\ pure' = [pure EXCEPT !.res = SetBody(@, value),
                            !.hist = Append(@, [Op("body") EXCEPT !.body = value])]
    /\ UNCHANGED <<chainVars, routerVars, srv>>

\* ctx.length
ReadLength ==
    /\ CanOperate
    /\ LET out == LengthOf(pure.res)
       IN pure' = [pure EXCEPT !.res = out.res,
                               !.hist = Append(@, [Op("length") EXCEPT !.len = out.len])]
    /\ UNCHANGED <<chainVars, routerVars, srv>>

\* ctx.fresh, with what fresh() says of the headers as they are now
ReadFresh(match) ==
    /\ CanOperate
    /\ LET out == RequestFresh(pure.fresh, pure.method, pure.res.status, match)
       IN pure' = [pure EXCEPT !.fresh = Stored(out),
                               !.hist = Append(@, [Op("fresh") EXCEPT !.fresh = out])]
    /\ UNCHANGED <<chainVars, routerVars, srv>>

\* the conditional middleware, when the promise of next() is fulfilled
RunConditional(match) ==
    /\ CanOperate
    /\ LET out == RequestFresh(pure.fresh, pure.method, pure.res.status, match)
       IN pure' = [pure EXCEPT !.fresh = Stored(out),
                               !.res = Conditional(@, out),
                               !.hist = Append(@, [Op("conditional") EXCEPT !.fresh = out])]
    /\ UNCHANGED <<chainVars, routerVars, srv>>

\* a new Context for a request of any method
InitResponse ==
    /\ InitChainIdle
    /\ InitRouterIdle
    /\ srv = NoServer
    /\ \E method \in RequestMethods :
          pure = [op |-> "context", method |-> method, fresh |-> "unset",
                  res |-> NewResponse, hist |-> <<>>]

ResponseNext ==
    \/ \E value \in ResponseStatuses : AssignStatus(value)
    \/ \E value \in ResponseBodies : AssignBody(value)
    \/ ReadLength
    \/ \E match \in BOOLEAN : ReadFresh(match)
    \/ \E match \in BOOLEAN : RunConditional(match)

SpecResponse == InitResponse /\ [][ResponseNext]_vars

----------------------------------------------------------------------------
(* The Response and Request of one Context: C35 - C37, C39 *)

\* the latest assignment or read
LastOp == pure.hist[Len(pure.hist)]

\* C35: after the conditional middleware has run for a request that is
\* fresh, the response has status 304 and a null body.
C35_FreshGives304 ==
    (pure.op = "context" /\ pure.hist # <<>> /\ LastOp.op = "conditional"
        /\ LastOp.fresh) =>
            pure.res.status = 304 /\ pure.res.body = "null"

\* the assignments and reads made so far are of the kinds in `ops`, and no
\* null body was assigned unless `nulls`
OnlyOps(ops, nulls) ==
    \A k \in DOMAIN pure.hist :
        /\ pure.hist[k].op \in ops
        /\ (pure.hist[k].op = "body" /\ ~nulls) => pure.hist[k].body # "null"

\* the positions of the assignments of kind `op`
Positions(op) == {k \in DOMAIN pure.hist : pure.hist[k].op = op}

\* the greatest position of a set of positions
Latest(ks) == CHOOSE k \in ks : \A j \in ks : j <= k

\* C36: after any sequence of status and non-null body assignments the
\* status is the one assigned last, if any was assigned, whatever bodies
\* were assigned after it; it is 200 when only bodies were assigned.
C36_ExplicitStatusKept ==
    (pure.op = "context" /\ OnlyOps({"status", "body"}, FALSE)) =>
        IF Positions("status") # {}
        THEN pure.res.status = pure.hist[Latest(Positions("status"))].status
        ELSE Positions("body") # {} => pure.res.status = 200

\* a status was assigned, and a body after it
C36_Witness ==
    /\ pure.op = "context" /\ OnlyOps({"status", "body"}, FALSE)
    /\ Positions("status") # {} /\ Positions("body") # {}
    /\ Latest(Positions("status")) < Latest(Positions("body"))
    /\ pure.res.status = 500

\* the body a Response holds after the assignments made so far
CurrentBody ==
    IF Positions("body") = {} THEN "null"
    ELSE pure.hist[Latest(Positions("body"))].body

\* C37: after any sequence of body assignments and length reads, a read of
\* length returns the byte length of the current body, 0 when the body is
\* null or empty.
C37_LengthOfCurrentBody ==
    (pure.op = "context" /\ pure.hist # <<>> /\ LastOp.op = "length"
        /\ OnlyOps({"body", "length"}, TRUE)) =>
            LastOp.len = IF CurrentBody \in {"null", ""} THEN 0
                         ELSE ByteLength(CurrentBody)

\* C39: Request.fresh is false whenever the request method is neither GET
\* nor HEAD, whatever the status of the response and whatever its headers.
C39_FreshOnlyForGetHead ==
    (pure.op = "context" /\ pure.hist # <<>> /\ LastOp.op = "fresh"
        /\ pure.method \notin {"GET", "HEAD"}) => ~LastOp.fresh

----------------------------------------------------------------------------
(* vary *)

MaxVaryCalls == 2   \* most vary() calls made on one Headers object

\* a header value or a field argument is written as the field names it
\* lists, separated by ", "; the empty string lists nothing

\* lower(str)
Lower(name) ==
    CASE name = "Accept" -> "accept"
      [] name = "Origin" -> "origin"
      [] OTHER           -> name

LowerAll(names) == [i \in DOMAIN names |-> Lower(names[i])]

\* parse(str): str.replace(/ /g, '').split(','), which gives [''] for ''
VaryParse(str) == IF str = <<>> THEN <<"">> ELSE str

\* the loop of append: a field that is not in `parsed` yet is pushed to it
\* and added to `res`
RECURSIVE VaryLoop(_, _, _)
VaryLoop(fields, parsed, res) ==
    IF fields = <<>> THEN res
    ELSE LET field == Lower(Head(fields))
         IN IF ~InSeq(parsed, field)
            THEN VaryLoop(Tail(fields), Append(parsed, field), Append(res, field))
            ELSE VaryLoop(Tail(fields), parsed, res)

\* append(header, field), for field names that are valid: the TypeError of
\* an empty field; an existing '*' is kept; '*' on either side gives '*';
\* otherwise `res`, which starts out empty, receives the fields that are not
\* in the header yet
VaryAppend(header, field) ==
    IF field = <<>> THEN Thrown("TypeError")
    ELSE IF header = <<"*">> THEN Out("string", header)
    ELSE LET fields == VaryParse(field)
             parsed == VaryParse(LowerAll(header))
         IN IF InSeq(fields, "*") \/ InSeq(parsed, "*") THEN Out("string", <<"*">>)
            ELSE Out("string", VaryLoop(fields, parsed, <<>>))

\* vary(headers, field): the Vary header is set to what append returns,
\* unless that is empty
Vary(value, field) ==
    LET head == VaryAppend(value, field)
    IN IF head.t = "throw" THEN value
       ELSE IF head.v # <<>> THEN head.v ELSE value

\* the Vary headers a response starts with, the field arguments
VaryNames   == {"Accept", "origin", "cookie"}
VaryHeaders == { <<>>, <<"accept">>, <<"Accept">>, <<"*">>, <<"accept", "origin">> }
VaryFields  == (SeqsUpTo(VaryNames, 2) \ { <<>> }) \cup { <<"*">> }

\* vary(headers, field) called by a middleware
CallVary(field) ==
    /\ pure.op \in {"headers", "vary"}
    /\ pure.n < MaxVaryCalls
    /\ pure' = [op |-> "vary", n |-> pure.n + 1, before |-> pure.vary,
                field |-> field, vary |-> Vary(pure.vary, field)]
    /\ UNCHANGED <<chainVars, routerVars, srv>>

InitVary ==
    /\ InitChainIdle
    /\ InitRouterIdle
    /\ srv = NoServer
    /\ \E h \in VaryHeaders :
          pure = [op |-> "headers", n |-> 0, before |-> <<>>, field |-> <<>>,
                  vary |-> h]

VaryNext == \E field \in VaryFields : CallVary(field)

SpecVary == InitVary /\ [][VaryNext]_vars

\* the field names a Vary header lists, whatever their case; '*' lists
\* every field
Lists(header, name) == InSeq(header, "*") \/ InSeq(LowerAll(header), Lower(name))

\* C38: after vary(headers, field) every field the Vary header listed
\* before the call is still listed, and so is every field of `field`.
C38_VaryAppends ==
    pure.op = "vary" =>
        /\ \A k \in DOMAIN pure.before : Lists(pure.vary, pure.before[k])
        /\ \A k \in DOMAIN pure.field : Lists(pure.vary, pure.field[k])

----------------------------------------------------------------------------
(* CookieJar with signing keys *)

MaxJarOps == 2    \* most set() and get() calls made on one jar

\* the keys of the Keygrip, newest first
JarKeys == <<"k1", "k2">>

\* a cookie value as the application gives it, the value no entry has, and
\* Keygrip.sign(`${name}=${value}`, key): the digest is a function of the
\* data and of the key, and of nothing else
Value(v)           == [kind |-> "plain", name |-> "", of |-> <<v>>, key |-> ""]
NoValue            == [kind |-> "undefined", name |-> "", of |-> <<>>, key |-> ""]
Sign(name, value, key) ==
    [kind |-> "sig", name |-> name, of |-> <<value>>, key |-> key]

\* Keygrip.index(data, digest): the first key whose signature of the data is
\* the digest, counted from 0; -1 when there is none
KeygripIndex(name, value, digest) ==
    LET found == {i \in DOMAIN JarKeys : digest = Sign(name, value, JarKeys[i])}
    IN IF found = {} THEN -1
       ELSE (CHOOSE i \in found : \A j \in found : i <= j) - 1

\* `${name}.sig`
SignedName(name) == IF name = "sid" THEN "sid.sig" ELSE "tok.sig"

\* the Map the jar is
EmptyJar == [n \in {} |-> NoValue]
JarHas(jar, name) == name \in DOMAIN jar
JarValue(jar, name) == IF JarHas(jar, name) THEN jar[name] ELSE NoValue
JarPut(jar, name, value) ==
    [n \in DOMAIN jar \cup {name} |-> IF n = name THEN value ELSE jar[n]]
JarDelete(jar, name) == [n \in DOMAIN jar \ {name} |-> jar[n]]

\* !value
Falsy(value) == value = NoValue \/ value = Value("")

\* CookieJar.set(name, value, opts) for valid names and values: a falsy
\* value deletes; a signed cookie takes the signature as its value and
\* `${name}.sig` as its name; without overwrite nothing is done when the
\* jar has `name`; the Map entry of `name` receives the cookie's value
JarSet(jar, name, value, signed, overwrite) ==
    IF Falsy(value) THEN JarDelete(jar, name)
    ELSE LET cookie == IF signed
                       THEN [name |-> SignedName(name),
                             value |-> Sign(name, value, JarKeys[1])]
                       ELSE [name |-> name, value |-> value]
         IN IF ~overwrite /\ JarHas(jar, name) THEN jar
            ELSE JarPut(jar, name, cookie.value)

\* CookieJar.get(name) with keys: the value and the jar afterwards.  The
\* value is returned when the jar has `${name}.sig` and it is the signature
\* of `${name}=${value}` under some key; a signature under no key is
\* deleted; one under an older key is set again, unsigned
JarGet(jar, name) ==
    LET value  == JarValue(jar, name)
        remote == JarValue(jar, SignedName(name))
    IN IF Falsy(remote) THEN [out |-> NoValue, jar |-> jar]
       ELSE LET idx == KeygripIndex(name, value, remote)
            IN IF idx = -1
               THEN [out |-> NoValue, jar |-> JarDelete(jar, SignedName(name))]
               ELSE [out |-> value,
                     jar |-> IF idx # 0
                             THEN JarSet(jar, SignedName(name),
                                         Sign(name, value, JarKeys[1]), FALSE, FALSE)
                             ELSE jar]

\* the cookie names and values in use, and the jars a request gives: none, a
\* cookie of another name, a cookie with its signature under the older key
JarNames  == {"sid", "tok"}
JarValues == {"", "v1", "v2"}
JarsBefore ==
    { EmptyJar,
      JarPut(EmptyJar, "tok", Value("v1")),
      JarPut(JarPut(EmptyJar, "sid", Value("v1")), "sid.sig", Sign("sid", Value("v1"), "k2")) }

CanUseJar == pure.op = "jar" /\ Len(pure.hist) < MaxJarOps

\* cookies.set(name, value)
CallJarSet(name, value) ==
    /\ CanUseJar
    /\ pure' = [pure EXCEPT
                  !.jar = JarSet(@, name, Value(value), TRUE, FALSE),
                  !.hist = Append(@, [op |-> "set", name |-> name,
                                      value |-> Value(value),
                                      had |-> JarHas(pure.jar, name),
                                      out |-> NoValue])]
    /\ UNCHANGED <<chainVars, routerVars, srv>>

\* cookies.get(name)
CallJarGet(name) ==
    /\ CanUseJar
    /\ LET got == JarGet(pure.jar, name)
       IN pure' = [pure EXCEPT
                     !.jar = got.jar,
                     !.hist = Append(@, [op |-> "get", name |-> name,
                                         value |-> NoValue,
                                         had |-> JarHas(pure.jar, name),
                                         out |-> got.out])]
    /\ UNCHANGED <<chainVars, routerVars, srv>>

InitJar ==
    /\ InitChainIdle
    /\ InitRouterIdle
    /\ srv = NoServer
    /\ \E jar \in JarsBefore : pure = [op |-> "jar", jar |-> jar, hist |-> <<>>]

JarNext ==
    \/ \E name \in JarNames, value \in JarValues : CallJarSet(name, value)
    \/ \E name \in JarNames : CallJarGet(name)

SpecJar == InitJar /\ [][JarNext]_vars

\* C40: after set(name, value) with a non-empty value on a jar that held no
\* cookie of that name, get(name) returns value.
C40_SignedRoundTrip ==
    (pure.op = "jar" /\ Len(pure.hist) >= 2) =>
        LET n == Len(pure.hist)
            s == pure.hist[n - 1]
            g == pure.hist[n]
        IN (/\ s.op = "set" /\ g.op = "get" /\ s.name = g.name
            /\ ~s.had /\ ~Falsy(s.value)) => g.out = s.value

====
